---- MODULE Spec2Model ----
(***************************************************************************)
(* A model of redgettext (src/redgettext.py): the catalog manager          *)
(* (POTFileManager), the translator-comment collector and the syntax-tree  *)
(* visitor (MessageExtractor).                                             *)
(*                                                                         *)
(* Representation.  A Python str is a sequence of one-character strings,   *)
(* "\n" included, so that "" is <<>>, truthiness is non-emptiness and      *)
(* join, strip, startswith and splitlines are computed.  An Optional value *)
(* is None (<<>>) or Some(x) (<<x>>).  A pathlib.Path is the sequence of   *)
(* its components (Path() is <<>>).  A syntax-tree node is a record with a *)
(* "type" field.                                                           *)
(***************************************************************************)
EXTENDS Integers, Sequences, FiniteSets, TLC

VARIABLES
    options,              \* POTFileManager.options
    potfiles,             \* POTFileManager._potfiles: output path -> catalog
    current_infile,       \* POTFileManager.current_infile
    current_outfile,      \* POTFileManager._current_outfile
    current_potfile,      \* POTFileManager.current_potfile: the key of the catalog it refers to
    source,               \* MessageExtractor.source
    translator_comments,  \* MessageExtractor.translator_comments
    todo,                 \* the nodes the visitor has still to visit, next first
    infiles,              \* main: all_infiles, each file with its text and tree
    next_file,            \* main: the position in all_infiles of the loop over it
    pc,                   \* where the program stands
    stderr,               \* what was printed to sys.stderr, in order
    accepted,             \* history: the add_entry calls that stored something, in order
    namespace,            \* main: the namespace _parse_args returns
    exit_code,            \* main: its return value, None while it runs
    written,              \* the files POTFileManager.write has saved: path -> entries
    earlier               \* history: the runs of main that are over, each with the order
                          \* of its input files and the files it saved

vars == <<options, potfiles, current_infile, current_outfile, current_potfile,
          source, translator_comments, todo, infiles, next_file, pc, stderr, accepted,
          namespace, exit_code, written, earlier>>

managerVars == <<potfiles, current_infile, current_outfile, current_potfile>>
extractorVars == <<source, translator_comments, todo>>
mainVars == <<namespace, exit_code, written, earlier>>

-----------------------------------------------------------------------------
(* Optional values and Python strings *)

None == <<>>
Some(x) == <<x>>
IsNone(o) == Len(o) = 0
Val(o) == o[1]

NL == "\n"

\* ord() of the characters the model's strings are built from
Ord(c) ==
    CASE c = NL -> 10
      [] c = " " -> 32
      [] c = "#" -> 35
      [] c = "." -> 46
      [] c = "/" -> 47
      [] c = ":" -> 58
      [] c = "A" -> 65
      [] c = "B" -> 66
      [] c = "P" -> 80
      [] c = "T" -> 84
      [] c = "a" -> 97
      [] c = "b" -> 98
      [] c = "c" -> 99
      [] c = "d" -> 100
      [] c = "k" -> 107
      [] c = "l" -> 108
      [] c = "m" -> 109
      [] c = "n" -> 110
      [] c = "x" -> 120
      [] c = "y" -> 121
      [] c = "z" -> 122

\* s < t for two str, as Python compares them
RECURSIVE StrLess(_, _)
StrLess(s, t) ==
    IF Len(t) = 0 THEN FALSE
    ELSE IF Len(s) = 0 THEN TRUE
    ELSE IF s[1] # t[1] THEN Ord(s[1]) < Ord(t[1])
    ELSE StrLess(Tail(s), Tail(t))

\* sep.join(strs)
RECURSIVE StrJoin(_, _)
StrJoin(sep, strs) ==
    IF Len(strs) = 0 THEN <<>>
    ELSE IF Len(strs) = 1 THEN strs[1]
    ELSE strs[1] \o sep \o StrJoin(sep, Tail(strs))

-----------------------------------------------------------------------------
(* pathlib.Path *)

\* str(path)
PathStr(path) == IF Len(path) = 0 THEN <<".">> ELSE StrJoin(<<"/">>, path)

\* path.parent, of a relative path
PathParent(path) == IF Len(path) = 0 THEN path ELSE SubSeq(path, 1, Len(path) - 1)

\* path / other, other relative; "." adds no component
PathJoin(path, other) == path \o SelectSeq(other, LAMBDA c : c # <<".">>)

-----------------------------------------------------------------------------
(* POTFileManager *)

\* POTFileManager.set_current_file: the output path computed for an input path
OutFile(opts, path) ==
    LET current_dir == IF opts.relative_to_cwd THEN <<>> ELSE PathParent(path)
    IN  PathJoin(PathJoin(current_dir, opts.output_dir), opts.output_filename)

\* the branch of set_current_file that registers a catalog
SetCurrentFileCreates(outfile, registered) == outfile \notin registered

\* POTFileManager.set_current_file
SetCurrentFile(path) ==
    LET outfile == OutFile(options, path)
    IN  /\ current_infile' = Some(path)
        /\ current_outfile' = Some(outfile)
        /\ IF SetCurrentFileCreates(outfile, DOMAIN potfiles)
           THEN /\ current_potfile' = Some(outfile)
                /\ potfiles' = [p \in DOMAIN potfiles \cup {outfile} |->
                                   IF p = outfile THEN <<>> ELSE potfiles[p]]
           ELSE UNCHANGED <<current_potfile, potfiles>>

\* the comparison of two occurrences (str, int), as Python compares tuples
OccLess(o1, o2) ==
    \/ StrLess(o1[1], o2[1])
    \/ o1[1] = o2[1] /\ o1[2] < o2[2]

RECURSIVE InsertOcc(_, _)
InsertOcc(sorted, o) ==
    IF Len(sorted) = 0 THEN <<o>>
    ELSE IF OccLess(o, sorted[Len(sorted)])
         THEN Append(InsertOcc(SubSeq(sorted, 1, Len(sorted) - 1), o), sorted[Len(sorted)])
         ELSE Append(sorted, o)

\* faulty variant: the occurrence list is left in insertion order
SortOccurrencesSkipped(occs) == occs

\* list.sort() of an occurrence list (stable)
RECURSIVE SortOccurrences(_)
SortOccurrences(occs) ==
    IF Len(occs) = 0 THEN <<>>
    ELSE InsertOcc(SortOccurrences(SubSeq(occs, 1, Len(occs) - 1)), occs[Len(occs)])

\* polib.POFile.find(msgid, msgctxt=msgctxt): the index of the entry found, 0 for None
Find(potfile, msgid, msgctxt) ==
    LET matches == {i \in 1..Len(potfile) :
                        potfile[i].msgid = msgid /\ potfile[i].msgctxt = msgctxt}
        min == CHOOSE i \in matches : \A j \in matches : i <= j
        max == CHOOSE i \in matches : \A j \in matches : i >= j
    IN  IF matches = {} THEN 0
        ELSE IF Cardinality(matches) = 1 THEN min
        ELSE IF IsNone(msgctxt) THEN max
        ELSE 0

\* `x or ""` / `x or None` of an Optional[str]
OrEmpty(o) == IF IsNone(o) THEN <<>> ELSE Val(o)
OrNone(o) == IF IsNone(o) \/ Len(Val(o)) = 0 THEN None ELSE o

\* faulty variant: a later plural replaces the one the entry has
MergeEntryLatestPlural(entry, msgid_plural, comment, flags, occurrence) ==
    [entry EXCEPT
        !.msgid_plural = IF Len(msgid_plural) > 0 THEN msgid_plural ELSE @,
        !.comment = IF Len(entry.comment) = 0 THEN comment
                    ELSE IF Len(comment) > 0 THEN entry.comment \o <<NL>> \o comment
                    ELSE @,
        !.flags = IF Len(entry.flags) = 0 THEN flags ELSE @,
        !.occurrences = SortOccurrences(Append(entry.occurrences, occurrence))]

\* add_entry, the merge into an entry that exists
MergeEntry(entry, msgid_plural, comment, flags, occurrence) ==
    [entry EXCEPT
        !.msgid_plural = IF (Len(entry.msgid_plural) > 0) # (Len(msgid_plural) > 0)
                            /\ Len(entry.msgid_plural) = 0
                         THEN msgid_plural ELSE @,
        !.comment = IF Len(entry.comment) = 0 THEN comment
                    ELSE IF Len(comment) > 0 THEN entry.comment \o <<NL>> \o comment
                    ELSE @,
        !.flags = IF Len(entry.flags) = 0 THEN flags ELSE @,
        !.occurrences = SortOccurrences(Append(entry.occurrences, occurrence))]

\* add_entry, what it prints when it merges
MergeWarnings(entry, msgid_plural, occurrence) ==
    IF (Len(entry.msgid_plural) > 0) # (Len(msgid_plural) > 0)
    THEN <<[kind |-> "plural_mismatch", msgid |-> entry.msgid,
            singular_occurence |-> IF Len(entry.msgid_plural) > 0
                                   THEN occurrence ELSE entry.occurrences[1],
            plural_occurence |-> IF Len(entry.msgid_plural) > 0
                                 THEN entry.occurrences[1] ELSE occurrence]>>
    ELSE <<>>

\* faulty variant: the empty msgid is stored like any other
AddEntryDiscardsNothing(msgid) == FALSE

\* add_entry stores nothing for this msgid
AddEntryDiscards(msgid) == Len(msgid) = 0

\* POTFileManager.add_entry on a catalog: the catalog afterwards
AddEntryPotfile(potfile, infile, msgid, msgid_plural0, msgctxt0, comment0, lineno, is_docstring) ==
    LET occurrence == <<PathStr(infile), lineno>>
        msgid_plural == OrEmpty(msgid_plural0)
        msgctxt == OrNone(msgctxt0)
        comment == OrEmpty(comment0)
        entry == Find(potfile, msgid, msgctxt)
        flags == IF is_docstring THEN <<"docstring">> ELSE <<>>
    IN  IF AddEntryDiscards(msgid) THEN potfile
        ELSE IF entry = 0
        THEN Append(potfile, [msgid |-> msgid, msgid_plural |-> msgid_plural,
                              msgctxt |-> msgctxt, comment |-> comment,
                              occurrences |-> <<occurrence>>, flags |-> flags])
        ELSE [potfile EXCEPT ![entry] =
                  MergeEntry(potfile[entry], msgid_plural, comment, flags, occurrence)]

\* POTFileManager.add_entry: what it prints
AddEntryPrints(potfile, infile, msgid, msgid_plural0, msgctxt0, lineno) ==
    LET occurrence == <<PathStr(infile), lineno>>
        entry == Find(potfile, msgid, OrNone(msgctxt0))
    IN  IF AddEntryDiscards(msgid)
        THEN <<[kind |-> "empty_msgid", file |-> occurrence[1], line |-> occurrence[2]]>>
        ELSE IF entry = 0 THEN <<>>
        ELSE MergeWarnings(potfile[entry], OrEmpty(msgid_plural0), occurrence)

\* POTFileManager.add_entry, on the manager's state (a call with no catalog set
\* raises RuntimeError and changes nothing)
AddEntry(msgid, msgid_plural, msgctxt, comment, lineno, is_docstring) ==
    /\ ~IsNone(current_potfile)
    /\ LET key == Val(current_potfile)
           infile == Val(current_infile)
       IN  /\ potfiles' = [potfiles EXCEPT ![key] =
                   AddEntryPotfile(@, infile, msgid, msgid_plural, msgctxt, comment,
                                   lineno, is_docstring)]
           /\ stderr' = stderr \o
                   AddEntryPrints(potfiles[key], infile, msgid, msgid_plural, msgctxt, lineno)
           /\ accepted' = IF AddEntryDiscards(msgid) THEN accepted
                          ELSE Append(accepted,
                                   [potfile |-> key, msgid |-> msgid, msgctxt |-> msgctxt,
                                    msgid_plural |-> msgid_plural, comment |-> comment,
                                    occurrence |-> <<PathStr(infile), lineno>>,
                                    is_docstring |-> is_docstring])
    /\ UNCHANGED <<current_infile, current_outfile, current_potfile>>

-----------------------------------------------------------------------------
(* MessageExtractor: the translator-comment collector *)

Whitespace == {" ", "\t", NL}

\* str.splitlines(), "\n" being the only line boundary of the model's sources
RECURSIVE SplitLines(_)
SplitLines(text) ==
    IF Len(text) = 0 THEN <<>>
    ELSE LET ends == {i \in 1..Len(text) : text[i] = NL}
             first == IF ends = {} THEN Len(text) + 1
                      ELSE CHOOSE i \in ends : \A j \in ends : i <= j
         IN  <<SubSeq(text, 1, first - 1)>> \o SplitLines(SubSeq(text, first + 1, Len(text)))

\* str.strip()
RECURSIVE Strip(_)
Strip(s) ==
    IF Len(s) = 0 THEN s
    ELSE IF s[1] \in Whitespace THEN Strip(Tail(s))
    ELSE IF s[Len(s)] \in Whitespace THEN Strip(SubSeq(s, 1, Len(s) - 1))
    ELSE s

\* str.startswith(prefix)
StartsWith(s, prefix) ==
    /\ Len(s) >= Len(prefix)
    /\ SubSeq(s, 1, Len(prefix)) = prefix

\* COMMENT_RE.fullmatch(line): [matched, comment] with comment the Optional group
\* "comment" of  [\t ]*(#(?P<comment>.*))?
CommentMatch(line) ==
    LET others == {i \in 1..Len(line) : line[i] \notin {" ", "\t"}}
        first == IF others = {} THEN Len(line) + 1
                 ELSE CHOOSE i \in others : \A j \in others : i <= j
    IN  IF first > Len(line) THEN [matched |-> TRUE, comment |-> None]
        ELSE IF line[first] = "#"
             THEN [matched |-> TRUE, comment |-> Some(SubSeq(line, first + 1, Len(line)))]
             ELSE [matched |-> FALSE, comment |-> None]

\* faulty variant: any comment line joins the buffer
CommentCollectedAlways(current_comment, comment, comment_tag) == TRUE

\* collect_comments: the test that a comment line joins the buffer
CommentCollected(current_comment, comment, comment_tag) ==
    Len(current_comment) > 0 \/ StartsWith(comment, comment_tag)

\* collect_comments: the loop body, on the pair [comments, current_comment]
CollectLine(st, lineno, line, comment_tag) ==
    LET m == CommentMatch(line)
    IN  IF m.matched
        THEN IF IsNone(m.comment) THEN st
             ELSE IF CommentCollected(st.current_comment, Strip(Val(m.comment)), comment_tag)
                  THEN [st EXCEPT !.current_comment = Append(@, Strip(Val(m.comment)))]
                  ELSE st
        ELSE IF Len(st.current_comment) > 0
             THEN [comments |-> [l \in DOMAIN st.comments \cup {lineno} |->
                                    IF l = lineno THEN StrJoin(<<NL>>, st.current_comment)
                                    ELSE st.comments[l]],
                   current_comment |-> <<>>]
             ELSE st

RECURSIVE CollectLines(_, _, _)
CollectLines(lines, n, comment_tag) ==
    IF n = 0 THEN [comments |-> [l \in {} |-> <<>>], current_comment |-> <<>>]
    ELSE CollectLine(CollectLines(lines, n - 1, comment_tag), n, lines[n], comment_tag)

\* MessageExtractor.collect_comments: translator_comments afterwards
CollectComments(text, comment_tag) ==
    CollectLines(SplitLines(text), Len(SplitLines(text)), comment_tag).comments

\* the buffer collect_comments ends with (a local the function drops)
CollectLeftover(text, comment_tag) ==
    CollectLines(SplitLines(text), Len(SplitLines(text)), comment_tag).current_comment

-----------------------------------------------------------------------------
(* MessageExtractor: the visitor *)

\* ast.NodeVisitor.generic_visit: the child nodes of a node, in field order
Children(node) ==
    CASE node.type = "Module" -> node.body
      [] node.type \in {"FunctionDef", "AsyncFunctionDef", "ClassDef"} ->
            node.body \o node.decorator_list
      [] node.type = "Expr" -> <<node.value>>
      [] node.type = "Call" ->
            <<node.func>> \o node.args \o node.keywords
      [] node.type \in {"Attribute", "Starred", "keyword", "FormattedValue"} -> <<node.value>>
      [] node.type = "JoinedStr" -> node.values
      [] node.type = "BinOp" -> <<node.left, node.right>>
      [] OTHER -> <<>>

\* faulty variant: any constant is taken for a string
GetLiteralStringOfAnyConstant(node) ==
    IF node.type = "Constant" THEN Some(node) ELSE None

\* MessageExtractor.get_literal_string: an Optional node
GetLiteralString(node) ==
    IF node.type = "Constant" /\ node.value.type = "str" THEN Some(node) ELSE None

\* MessageExtractor.get_docstring_node: an Optional node
GetDocstringNode(node) ==
    IF Len(node.body) = 0 THEN None
    ELSE IF node.body[1].type # "Expr" THEN None
    ELSE GetLiteralString(node.body[1].value)

\* faulty variant: the plural and context indices are left out
MaxArgNumberOfSingular(ki) == ki.arg_singular

\* KeywordInfo.max_arg_number
MaxArgNumber(ki) ==
    LET p == IF IsNone(ki.arg_plural) THEN 0 ELSE Val(ki.arg_plural)
        c == IF IsNone(ki.arg_context) THEN 0 ELSE Val(ki.arg_context)
        m == IF ki.arg_singular >= p THEN ki.arg_singular ELSE p
    IN  IF m >= c THEN m ELSE c

\* get_keyword_info: the test of one candidate against the call's argument count
KeywordMatches(ki, nargs) ==
    IF ~IsNone(ki.total_arg_count)
    THEN nargs = Val(ki.total_arg_count)
    ELSE ~(nargs < MaxArgNumber(ki))

\* MessageExtractor.get_keyword_info: the index of the candidate returned,
\* 0 when it raises ValueError
GetKeywordInfo(keywords, nargs) ==
    LET ok == {i \in 1..Len(keywords) : KeywordMatches(keywords[i], nargs)}
    IN  IF ok = {} THEN 0 ELSE CHOOSE i \in ok : \A j \in ok : i <= j

\* MessageExtractor.get_literal_string_from_call:
\* [exc, node] with exc "" (returned), "ValueError" or "IndexError"
GetLiteralStringFromCall(node, arg_number) ==
    IF IsNone(arg_number) THEN [exc |-> "", node |-> None, arg |-> 0]
    ELSE IF Val(arg_number) >= Len(node.args)
         THEN [exc |-> "IndexError", node |-> None, arg |-> Val(arg_number) + 1]
    ELSE IF IsNone(GetLiteralString(node.args[Val(arg_number) + 1]))
         THEN [exc |-> "ValueError", node |-> None, arg |-> Val(arg_number) + 1]
    ELSE [exc |-> "", node |-> GetLiteralString(node.args[Val(arg_number) + 1]), arg |-> 0]

\* visit_Call: the name looked up in options.keywords, None when the call's
\* func is neither a Name nor an Attribute
CallName(node) ==
    IF node.func.type = "Name" THEN Some(node.func.id)
    ELSE IF node.func.type = "Attribute" THEN Some(node.func.attr)
    ELSE None

\* visit_Call: the three literals of a call, resolved in the order singular,
\* plural, context; the first exception ends the resolution
ResolveArgs(node, ki) ==
    LET s == GetLiteralStringFromCall(node, Some(ki.arg_singular))
        p == GetLiteralStringFromCall(node, ki.arg_plural)
        c == GetLiteralStringFromCall(node, ki.arg_context)
    IN  IF s.exc # "" THEN [exc |-> s.exc, arg |-> s.arg, nodes |-> <<>>]
        ELSE IF p.exc # "" THEN [exc |-> p.exc, arg |-> p.arg, nodes |-> <<>>]
        ELSE IF c.exc # "" THEN [exc |-> c.exc, arg |-> c.arg, nodes |-> <<>>]
        ELSE [exc |-> "", arg |-> 0, nodes |-> <<s.node, p.node, c.node>>]

\* faulty variant: the comments are read and stay in the map
PopCommentsKeeping(pending, linenos) ==
    [comments |-> [i \in 1..Len(SelectSeq(linenos, LAMBDA l : l \in DOMAIN pending)) |->
                      pending[SelectSeq(linenos, LAMBDA l : l \in DOMAIN pending)[i]]],
     pending |-> pending]

\* visit_Call: the pops of translator_comments, for the line numbers of the
\* commentable nodes in order: [comments (popped, in order), pending (the map left)]
RECURSIVE PopComments(_, _)
PopComments(pending, linenos) ==
    IF Len(linenos) = 0 THEN [comments |-> <<>>, pending |-> pending]
    ELSE LET hit == linenos[1] \in DOMAIN pending
             left == IF hit THEN [l \in DOMAIN pending \ {linenos[1]} |-> pending[l]]
                     ELSE pending
             rest == PopComments(left, Tail(linenos))
         IN  [comments |-> (IF hit THEN <<pending[linenos[1]]>> ELSE <<>>) \o rest.comments,
              pending |-> rest.pending]

\* visit_Call: (node, arg_singular, arg_plural, arg_context), the ones not None
CommentableNodes(node, resolved) ==
    <<node>> \o (IF IsNone(resolved[1]) THEN <<>> ELSE <<Val(resolved[1])>>)
             \o (IF IsNone(resolved[2]) THEN <<>> ELSE <<Val(resolved[2])>>)
             \o (IF IsNone(resolved[3]) THEN <<>> ELSE <<Val(resolved[3])>>)

\* print_error
ErrorRecord(node, message, arg) ==
    [kind |-> "error", file |-> PathStr(Val(current_infile)), line |-> node.lineno,
     message |-> message, arg |-> arg]

\* `node and node.value` of an Optional node
NodeValue(o) == IF IsNone(o) THEN None ELSE Some(Val(o).value.value)

\* MessageExtractor.add_entry: the call into the manager
ExtractorAddEntry(node, node_plural, node_context, comment, starting_node, is_docstring) ==
    AddEntry(node.value.value, NodeValue(node_plural), NodeValue(node_context),
             Some(comment), starting_node.lineno, is_docstring)

\* faulty variant: the keyword arguments of a call are not looked at
CallOutcomeWhateverKeywords(node, keywords) ==
    LET name == CallName(node)
    IN  IF IsNone(name) \/ Val(name) \notin DOMAIN keywords THEN "skip"
        ELSE IF GetKeywordInfo(keywords[Val(name)], Len(node.args)) = 0 THEN "nomatch"
        ELSE LET ki == keywords[Val(name)][GetKeywordInfo(keywords[Val(name)], Len(node.args))]
                 r == ResolveArgs(node, ki)
             IN  IF r.exc = "" THEN "add" ELSE r.exc

\* visit_Call: what the handler does with the call: "skip" (not a registered
\* name), "kwargs", "nomatch", "ValueError" (an argument is no literal),
\* "IndexError" (raised out of the visitor) or "add"
CallOutcome(node, keywords) ==
    LET name == CallName(node)
    IN  IF IsNone(name) \/ Val(name) \notin DOMAIN keywords THEN "skip"
        ELSE IF Len(node.keywords) > 0 THEN "kwargs"
        ELSE IF GetKeywordInfo(keywords[Val(name)], Len(node.args)) = 0 THEN "nomatch"
        ELSE LET ki == keywords[Val(name)][GetKeywordInfo(keywords[Val(name)], Len(node.args))]
                 r == ResolveArgs(node, ki)
             IN  IF r.exc = "" THEN "add" ELSE r.exc

\* generic_visit(node) as the last step of a handler: the children are visited
\* next, before the nodes that were waiting
GenericVisit(node) == todo' = Children(node) \o Tail(todo)

\* MessageExtractor.visit_Call
VisitCall ==
    /\ pc = "visit"
    /\ Len(todo) > 0
    /\ todo[1].type = "Call"
    /\ LET node == todo[1]
           outcome == CallOutcome(node, options.keywords)
       IN  CASE outcome = "skip" ->
                  /\ GenericVisit(node)
                  /\ UNCHANGED <<managerVars, translator_comments, pc, stderr, accepted>>
             [] outcome = "kwargs" ->
                  /\ stderr' = Append(stderr, ErrorRecord(node,
                         "Seen unexpected keyword arguments in gettext call", 0))
                  /\ GenericVisit(node)
                  /\ UNCHANGED <<managerVars, translator_comments, pc, accepted>>
             [] outcome = "nomatch" ->
                  /\ stderr' = Append(stderr, ErrorRecord(node,
                         "The gettext call doesn't match any set argument specification.", 0))
                  /\ GenericVisit(node)
                  /\ UNCHANGED <<managerVars, translator_comments, pc, accepted>>
             [] outcome = "ValueError" ->
                  /\ stderr' = Append(stderr, ErrorRecord(node,
                         "Seen unexpected type for argument in gettext call",
                         ResolveArgs(node, options.keywords[Val(CallName(node))][
                             GetKeywordInfo(options.keywords[Val(CallName(node))],
                                            Len(node.args))]).arg))
                  /\ GenericVisit(node)
                  /\ UNCHANGED <<managerVars, translator_comments, pc, accepted>>
             [] outcome = "IndexError" ->
                  /\ pc' = "IndexError"
                  /\ UNCHANGED <<managerVars, translator_comments, todo, stderr, accepted>>
             [] outcome = "add" ->
                  LET kis == options.keywords[Val(CallName(node))]
                      ki == kis[GetKeywordInfo(kis, Len(node.args))]
                      resolved == ResolveArgs(node, ki).nodes
                      commentable == CommentableNodes(node, resolved)
                      popped == PopComments(translator_comments,
                                    [i \in 1..Len(commentable) |-> commentable[i].lineno])
                      comments == popped.comments \o
                                    (IF Len(ki.comment) > 0 THEN <<ki.comment>> ELSE <<>>)
                  IN  /\ translator_comments' = popped.pending
                      /\ ExtractorAddEntry(Val(resolved[1]), resolved[2], resolved[3],
                                           StrJoin(<<NL>>, comments), node, FALSE)
                      /\ GenericVisit(node)
                      /\ UNCHANGED pc
    /\ UNCHANGED <<mainVars, options, source, infiles, next_file>>

\* the add_entry of a docstring handler, when the node has a docstring
AddDocstring(node) ==
    IF IsNone(GetDocstringNode(node))
    THEN UNCHANGED <<managerVars, stderr, accepted>>
    ELSE ExtractorAddEntry(Val(GetDocstringNode(node)), None, None, <<>>,
                           Val(GetDocstringNode(node)), TRUE)

\* MessageExtractor.visit_Module
VisitModule ==
    /\ pc = "visit"
    /\ Len(todo) > 0
    /\ todo[1].type = "Module"
    /\ IF ~options.docstrings
       THEN UNCHANGED <<managerVars, stderr, accepted>>
       ELSE AddDocstring(todo[1])
    /\ GenericVisit(todo[1])
    /\ UNCHANGED <<mainVars, options, source, translator_comments, infiles, next_file, pc>>

CLASS_DECORATOR_NAMES == {"cog_i18n"}
FUNCTION_DECORATOR_NAMES == {"command", "group"}

\* faulty variant: a decorator need not be a call
DecoratorQualifiesUncalled(deco, decorator_names) ==
    \/ deco.type = "Name" /\ deco.id \in decorator_names
    \/ /\ deco.type = "Call"
       /\ \/ deco.func.type = "Name" /\ deco.func.id \in decorator_names
          \/ deco.func.type = "Attribute" /\ deco.func.attr \in decorator_names

\* handle_class_or_function: a decorator at which the for loop breaks
DecoratorQualifies(deco, decorator_names) ==
    /\ deco.type = "Call"
    /\ \/ deco.func.type = "Name" /\ deco.func.id \in decorator_names
       \/ deco.func.type = "Attribute" /\ deco.func.attr \in decorator_names

\* handle_class_or_function: whether it goes on to look for a docstring
IsDocstringCandidate(node, opts) ==
    IF opts.docstrings THEN TRUE
    ELSE IF opts.cmd_docstrings
    THEN LET decorator_names == IF node.type = "ClassDef" THEN CLASS_DECORATOR_NAMES
                                ELSE FUNCTION_DECORATOR_NAMES
         IN  \E i \in 1..Len(node.decorator_list) :
                 DecoratorQualifies(node.decorator_list[i], decorator_names)
    ELSE FALSE

\* MessageExtractor.handle_class_or_function
HandleClassOrFunction(node) ==
    IF IsDocstringCandidate(node, options)
    THEN AddDocstring(node)
    ELSE UNCHANGED <<managerVars, stderr, accepted>>

\* MessageExtractor.visit_ClassDef
VisitClassDef ==
    /\ pc = "visit"
    /\ Len(todo) > 0
    /\ todo[1].type = "ClassDef"
    /\ HandleClassOrFunction(todo[1])
    /\ GenericVisit(todo[1])
    /\ UNCHANGED <<mainVars, options, source, translator_comments, infiles, next_file, pc>>

\* MessageExtractor.visit_FunctionDef and visit_AsyncFunctionDef
VisitFunctionDef ==
    /\ pc = "visit"
    /\ Len(todo) > 0
    /\ todo[1].type \in {"FunctionDef", "AsyncFunctionDef"}
    /\ HandleClassOrFunction(todo[1])
    /\ GenericVisit(todo[1])
    /\ UNCHANGED <<mainVars, options, source, translator_comments, infiles, next_file, pc>>

\* ast.NodeVisitor.visit of a node that has no handler: generic_visit
VisitOther ==
    /\ pc = "visit"
    /\ Len(todo) > 0
    /\ todo[1].type \notin {"Call", "Module", "ClassDef", "FunctionDef", "AsyncFunctionDef"}
    /\ GenericVisit(todo[1])
    /\ UNCHANGED <<mainVars, options, managerVars, source, translator_comments, infiles,
                   next_file, pc, stderr, accepted>>

\* faulty variant: nothing is reported
UnusedCommentsSilent(pending, file) == <<>>

\* the lines extract_messages prints when the visit is over
UnusedComments(pending, file) ==
    LET RECURSIVE Upto(_)
        Upto(n) == IF n = 0 THEN <<>>
                   ELSE Upto(n - 1) \o
                        (IF n \in DOMAIN pending
                         THEN <<[kind |-> "unused", file |-> PathStr(file), line |-> n]>>
                         ELSE <<>>)
    IN  Upto(Len(SplitLines(source)))

\* MessageExtractor.extract_messages, up to the call of visit(module)
ExtractMessagesBegin ==
    /\ pc = "extract"
    /\ infiles[next_file].module.type # "SyntaxError"
    /\ source' = infiles[next_file].source
    /\ translator_comments' = CollectComments(infiles[next_file].source, options.comment_tag)
    /\ todo' = <<infiles[next_file].module>>
    /\ pc' = "visit"
    /\ UNCHANGED <<mainVars, options, managerVars, infiles, next_file, stderr, accepted>>

\* MessageExtractor.extract_messages, after visit(module) has returned
ExtractMessagesEnd ==
    /\ pc = "visit"
    /\ Len(todo) = 0
    /\ stderr' = stderr \o UnusedComments(translator_comments, Val(current_infile))
    /\ next_file' = next_file + 1
    /\ pc' = "main"
    /\ UNCHANGED <<mainVars, options, managerVars, extractorVars, infiles, accepted>>

\* faulty variant: the error is not printed
SyntaxErrorSilent(path) == <<>>

\* main: what its except clause prints to sys.stderr
SyntaxErrorReport(path) == <<[kind |-> "syntax", file |-> PathStr(path)]>>

\* MessageExtractor.extract_messages when ast.parse raises SyntaxError, and the
\* except clause of main
MainSyntaxError ==
    /\ pc = "extract"
    /\ infiles[next_file].module.type = "SyntaxError"
    /\ stderr' = stderr \o SyntaxErrorReport(infiles[next_file].path)
    /\ next_file' = next_file + 1
    /\ pc' = "main"
    /\ UNCHANGED <<mainVars, options, managerVars, extractorVars, infiles, accepted>>

\* main: the head of the loop over all_infiles
MainSetCurrentFile ==
    /\ pc = "main"
    /\ next_file <= Len(infiles)
    /\ SetCurrentFile(infiles[next_file].path)
    /\ pc' = "extract"
    /\ UNCHANGED <<mainVars, options, extractorVars, infiles, next_file, stderr, accepted>>

-----------------------------------------------------------------------------
(* KeywordInfo.from_spec and parse_keyword_specs *)

\* a KeywordInfo
KI(keyword, arg_singular, arg_plural, arg_context, total_arg_count, comment) ==
    [keyword |-> keyword, arg_singular |-> arg_singular, arg_plural |-> arg_plural,
     arg_context |-> arg_context, total_arg_count |-> total_arg_count, comment |-> comment]

\* str.partition(sep) for a separator of one character: what stands before
\* and after its first occurrence
Partition(s, sep) ==
    LET at == {i \in 1..Len(s) : s[i] = sep}
        first == IF at = {} THEN 0 ELSE CHOOSE i \in at : \A j \in at : i <= j
    IN  IF first = 0 THEN [before |-> s, after |-> <<>>]
        ELSE [before |-> SubSeq(s, 1, first - 1), after |-> SubSeq(s, first + 1, Len(s))]

\* s.rfind(ch, None, end): the highest 0-based index below end, -1 for none
RFind(s, ch, end) ==
    LET at == {i \in 0..end - 1 : s[i + 1] = ch}
    IN  IF at = {} THEN -1 ELSE CHOOSE i \in at : \A j \in at : j <= i

\* s[start:end] with 0-based indices
Slice(s, start, end) == SubSeq(s, start + 1, end)

Digits == <<"0", "1", "2", "3", "4", "5", "6", "7", "8", "9">>
IsDigit(c) == \E i \in 1..Len(Digits) : Digits[i] = c
DigitValue(c) == (CHOOSE i \in 1..Len(Digits) : Digits[i] = c) - 1

RECURSIVE DigitsValue(_)
DigitsValue(ds) ==
    IF Len(ds) = 0 THEN 0
    ELSE DigitsValue(SubSeq(ds, 1, Len(ds) - 1)) * 10 + DigitValue(ds[Len(ds)])

\* int(): the digits of a number, single underscores between them allowed
IntWellFormed(body) ==
    /\ Len(body) > 0
    /\ IsDigit(body[1])
    /\ IsDigit(body[Len(body)])
    /\ \A i \in 1..Len(body) : IsDigit(body[i]) \/ body[i] = "_"
    /\ \A i \in 1..Len(body) - 1 : ~(body[i] = "_" /\ body[i + 1] = "_")

\* int(): the number whose sign and digits are given
IntSigned(negative, body) ==
    IF ~IntWellFormed(body) THEN [ok |-> FALSE, value |-> 0]
    ELSE IF negative THEN [ok |-> TRUE, value |-> 0 - DigitsValue(SelectSeq(body, IsDigit))]
    ELSE [ok |-> TRUE, value |-> DigitsValue(SelectSeq(body, IsDigit))]

\* int(): the text without the whitespace around it
IntStripped(t) ==
    IF Len(t) > 0 /\ t[1] \in {"+", "-"} THEN IntSigned(t[1] = "-", Tail(t))
    ELSE IntSigned(FALSE, t)

\* int(text): surrounding whitespace, a sign, digits with single underscores
\* between them; [ok, value], ok being FALSE where int raises ValueError
IntOf(text) == IntStripped(Strip(text))

\* the locals of from_spec when its loop starts; exc is the message of the
\* ValueError raised, "" while none is
\* faulty variant: the singular index is 0 unless the argspec gives it
FromSpecLocalsWithSingular ==
    [comments |-> <<>>, arg_singular |-> Some(0), arg_plural |-> None, arg_context |-> None,
     total_arg_count |-> None, exc |-> ""]

\* from_spec: its locals before the while loop
FromSpecLocals ==
    [comments |-> <<>>, arg_singular |-> None, arg_plural |-> None, arg_context |-> None,
     total_arg_count |-> None, exc |-> ""]

Raise(st, message) == [st EXCEPT !.exc = message]

\* from_spec: the branches of the while loop for a token that is no comment,
\* char being its last character and number what parse_int makes of its digits
FromSpecNumber(char, number, st) ==
    IF char = "t"
    THEN IF ~IsNone(st.total_arg_count) THEN Raise(st, "total twice")
         ELSE IF ~number.ok THEN Raise(st, "not an integer")
         ELSE [st EXCEPT !.total_arg_count = Some(number.value)]
    ELSE IF char = "c"
    THEN IF ~IsNone(st.arg_context) THEN Raise(st, "context twice")
         ELSE IF ~number.ok THEN Raise(st, "not an integer")
         ELSE [st EXCEPT !.arg_context = Some(number.value - 1)]
    ELSE IF IsNone(st.arg_singular)
    THEN IF ~number.ok THEN Raise(st, "not an integer")
         ELSE [st EXCEPT !.arg_singular = Some(number.value - 1)]
    ELSE IF IsNone(st.arg_plural)
    THEN IF ~number.ok THEN Raise(st, "not an integer")
         ELSE [st EXCEPT !.arg_plural = st.arg_singular,
                         !.arg_singular = Some(number.value - 1)]
    ELSE Raise(st, "more than two normal arguments")

\* from_spec: the digits of the token that ends at pos and starts at start_pos
FromSpecDigits(arg_info, pos, start_pos) ==
    IF arg_info[pos + 1] \in {"t", "c"} THEN Slice(arg_info, start_pos, pos)
    ELSE Slice(arg_info, start_pos, pos + 1)

RECURSIVE FromSpecScan(_, _, _)

\* from_spec: the while loop goes on, unless the token raised
FromSpecNext(arg_info, pos, st) ==
    IF st.exc # "" THEN st ELSE FromSpecScan(arg_info, pos, st)

\* from_spec: the branch of the while loop for a closing quote at pos, quote
\* being the position of the quote found before it
FromSpecComment(arg_info, pos, quote, st) ==
    IF quote = -1 THEN Raise(st, "no starting quote")
    ELSE IF quote - 1 >= 0 /\ arg_info[quote] # ","
    THEN Raise(st, "no comma before the starting quote")
    ELSE FromSpecScan(arg_info, quote - 2,
                      [st EXCEPT !.comments = Append(@, Slice(arg_info, quote + 1, pos))])

\* from_spec: the while loop, from right to left; pos is the 0-based position
\* of the character looked at, start_pos that of the first one of its token
FromSpecToken(arg_info, pos, start_pos, st) ==
    FromSpecNext(arg_info, start_pos - 2,
                 FromSpecNumber(arg_info[pos + 1],
                                IntOf(FromSpecDigits(arg_info, pos, start_pos)), st))

FromSpecScan(arg_info, pos, st) ==
    IF pos < 0 THEN st
    ELSE IF arg_info[pos + 1] = "\""
    THEN FromSpecComment(arg_info, pos, RFind(arg_info, "\"", pos), st)
    ELSE FromSpecToken(arg_info, pos, RFind(arg_info, ",", pos) + 1, st)

\* faulty variant: the comments stay in the order they were scanned
AsScanned(seq) == seq

Reverse(seq) == [i \in 1..Len(seq) |-> seq[Len(seq) + 1 - i]]

\* what from_spec does: it returns (info is the KeywordInfo) or it raises
\* ValueError (exc is its message)
Returned(info) == [exc |-> "", info |-> Some(info)]
Raised(message) == [exc |-> message, info |-> None]

\* from_spec: the checks of total_arg_count
FromSpecTotalChecked(ret) ==
    IF IsNone(ret.total_arg_count) THEN Returned(ret)
    ELSE IF Val(ret.total_arg_count) < 1 THEN Raised("total below 1")
    ELSE IF Val(ret.total_arg_count) <= MaxArgNumber(ret) THEN Raised("total too low")
    ELSE Returned(ret)

\* from_spec: `len(args) != len(set(args))`
SameArgumentNumber(arg_list) ==
    Len(arg_list) # Cardinality({arg_list[i] : i \in 1..Len(arg_list)})

\* from_spec: what follows the while loop
FromSpecChecked(keyword, st) ==
    IF st.exc # "" THEN Raised(st.exc)
    ELSE IF IsNone(st.arg_singular) THEN Raised("no singular")
    ELSE IF ~IsNone(st.arg_plural) /\ Val(st.arg_plural) < 0 THEN Raised("plural below 1")
    ELSE IF Val(st.arg_singular) < 0 THEN Raised("singular below 1")
    ELSE IF ~IsNone(st.arg_context) /\ Val(st.arg_context) < 0 THEN Raised("context below 1")
    ELSE IF SameArgumentNumber(st.arg_singular \o st.arg_plural \o st.arg_context)
    THEN Raised("same argument number")
    ELSE FromSpecTotalChecked(KI(keyword, Val(st.arg_singular), st.arg_plural, st.arg_context,
                                 st.total_arg_count, StrJoin(<<NL>>, Reverse(st.comments))))

\* from_spec, keyword and arg_info being what stands before and after the colon
FromSpecOf(keyword, arg_info) ==
    IF Len(arg_info) = 0 THEN Returned(KI(keyword, 0, None, None, None, <<>>))
    ELSE FromSpecChecked(keyword, FromSpecScan(arg_info, Len(arg_info) - 1, FromSpecLocals))

\* KeywordInfo.from_spec
FromSpec(keyword_spec) ==
    FromSpecOf(Partition(keyword_spec, ":").before, Partition(keyword_spec, ":").after)

\* KeywordInfo.__eq__
KeywordInfoEq(self, other) ==
    self.keyword = other.keyword /\ self.total_arg_count = other.total_arg_count

\* the sort key of parse_keyword_specs, (total_arg_count is None, total_arg_count),
\* compared as tuples are
SortKeyLess(ki1, ki2) ==
    \/ ~IsNone(ki1.total_arg_count) /\ IsNone(ki2.total_arg_count)
    \/ /\ ~IsNone(ki1.total_arg_count) /\ ~IsNone(ki2.total_arg_count)
       /\ Val(ki1.total_arg_count) < Val(ki2.total_arg_count)

RECURSIVE InsertKeywordInfo(_, _)
InsertKeywordInfo(sorted, ki) ==
    IF Len(sorted) = 0 THEN <<ki>>
    ELSE IF SortKeyLess(ki, sorted[Len(sorted)])
         THEN Append(InsertKeywordInfo(SubSeq(sorted, 1, Len(sorted) - 1), ki),
                     sorted[Len(sorted)])
         ELSE Append(sorted, ki)

\* faulty variant: the specs of a name are left in the order given
SortedKeywordInfosAsGiven(keywords) == keywords

\* sorted(keywords, key=...) of parse_keyword_specs
RECURSIVE SortedKeywordInfos(_)
SortedKeywordInfos(keywords) ==
    IF Len(keywords) = 0 THEN <<>>
    ELSE InsertKeywordInfo(SortedKeywordInfos(SubSeq(keywords, 1, Len(keywords) - 1)),
                           keywords[Len(keywords)])

\* faulty variant: no spec is taken for one given before
SpecifiedBeforeNever(keyword_info, keywords) == FALSE

\* parse_keyword_specs: `keyword_info in keywords`
SpecifiedBefore(keyword_info, keywords) ==
    \E i \in 1..Len(keywords) : KeywordInfoEq(keyword_info, keywords[i])

RECURSIVE ParseKeywordSpecsLoop(_, _)

\* parse_keyword_specs: the body of its for loop, keywords being the specs
\* added before for the keyword of keyword_info
ParseKeywordSpecsAdd(keyword_specs, parsed, keyword_info, keywords) ==
    IF SpecifiedBefore(keyword_info, keywords)
    THEN [exc |-> "specified more than once", parsed |-> parsed]
    ELSE ParseKeywordSpecsLoop(Tail(keyword_specs),
             (keyword_info.keyword :> Append(keywords, keyword_info)) @@ parsed)

\* parse_keyword_specs: parsed.setdefault(keyword, set())
SetDefault(parsed, keyword) == IF keyword \in DOMAIN parsed THEN parsed[keyword] ELSE <<>>

ParseKeywordSpecsStep(keyword_specs, parsed, from_spec) ==
    IF from_spec.exc # "" THEN [exc |-> from_spec.exc, parsed |-> parsed]
    ELSE ParseKeywordSpecsAdd(keyword_specs, parsed, Val(from_spec.info),
                              SetDefault(parsed, Val(from_spec.info).keyword))

\* parse_keyword_specs: its for loop; parsed maps a keyword to the specs added
\* to its set, here in the order of their addition
ParseKeywordSpecsLoop(keyword_specs, parsed) ==
    IF Len(keyword_specs) = 0 THEN [exc |-> "", parsed |-> parsed]
    ELSE ParseKeywordSpecsStep(keyword_specs, parsed, FromSpec(keyword_specs[1]))

\* parse_keyword_specs: its return statement
ParseKeywordSpecsReturn(loop) ==
    [exc |-> loop.exc,
     keywords |-> [k \in DOMAIN loop.parsed |-> SortedKeywordInfos(loop.parsed[k])]]

\* parse_keyword_specs: [exc, keywords], exc the message of the ValueError
\* raised or "", keywords the dictionary returned
ParseKeywordSpecs(keyword_specs) ==
    ParseKeywordSpecsReturn(ParseKeywordSpecsLoop(keyword_specs, [k \in {} |-> <<>>]))

-----------------------------------------------------------------------------
(* Bounds and input sets *)

\* the number of add_entry calls made through the public methods
MaxAdds == 2

Str1(c) == <<c>>

\* parse_keyword_specs(DEFAULT_KEYWORD_SPECS)
DefaultKeywords ==
    "_" :> <<KI("_", 0, None, None, Some(1), <<>>)>>
    @@ "gettext_noop" :> <<KI("gettext_noop", 0, None, None, Some(1), <<>>)>>

\* parse_keyword_specs(("_:1,1t", "p_:1c,2", "t_:2,2t", "t_:1,2,3t", "t_:1"))
ExtractKeywords ==
    "_" :> <<KI("_", 0, None, None, Some(1), <<>>)>>
    @@ "p_" :> <<KI("p_", 1, None, Some(0), None, <<>>)>>
    @@ "t_" :> <<KI("t_", 1, None, None, Some(2), <<>>),
                 KI("t_", 0, Some(1), None, Some(3), <<>>),
                 KI("t_", 0, None, None, None, <<>>)>>

\* the comment tag "Translators: ", written T: and a space
CommentTag == <<"T", ":", " ">>

\* Options(...): the defaults of Options.__init__ but for the arguments given
MakeOptions(keywords, docstrings, cmd_docstrings, relative_to_cwd) ==
    [omit_empty |-> FALSE, keywords |-> keywords, comment_tag |-> CommentTag,
     docstrings |-> docstrings, cmd_docstrings |-> cmd_docstrings,
     relative_to_cwd |-> relative_to_cwd,
     output_dir |-> <<Str1("l")>>, output_filename |-> <<Str1("m")>>]

DefaultOptions(relative_to_cwd) == MakeOptions(DefaultKeywords, FALSE, FALSE, relative_to_cwd)

\* input files a/x, a/y and b/x
InFiles == {<<Str1("a"), Str1("x")>>, <<Str1("a"), Str1("y")>>, <<Str1("b"), Str1("x")>>}

ApiMsgids == {<<>>, Str1("A")}
ApiContexts == {None, Some(<<>>), Some(Str1("c"))}
ApiLines == {1, 2}

-----------------------------------------------------------------------------
(* main *)

DEFAULT_KEYWORD_SPECS ==
    << <<"_", ":", "1", ",", "1", "t">>,
       <<"g", "e", "t", "t", "e", "x", "t", "_", "n", "o", "o", "p", ":", "1", ",", "1", "t">> >>

\* the name, as the syntax tree holds it, that a keyword spells: the names of
\* one character are that character
Identifier(keyword) ==
    IF Len(keyword) = 1 THEN keyword[1]
    ELSE IF keyword = Partition(DEFAULT_KEYWORD_SPECS[2], ":").before THEN "gettext_noop"
    ELSE ""

\* the namespace _parse_args returns, but for its infiles
Namespace(keyword_specs, include_default_keywords, omit_empty, relative_to_cwd, output_dir, output_filename) ==
    [keyword_specs |-> keyword_specs, include_default_keywords |-> include_default_keywords,
     omit_empty |-> omit_empty, docstrings |-> FALSE, cmd_docstrings |-> FALSE,
     relative_to_cwd |-> relative_to_cwd, output_dir |-> output_dir,
     output_filename |-> output_filename]

\* Options.from_args: the keyword specs it hands to Options
FromArgsKeywordSpecs(ns) ==
    ns.keyword_specs \o (IF ns.include_default_keywords THEN DEFAULT_KEYWORD_SPECS ELSE <<>>)

\* the dictionary of parse_keyword_specs, by the names of the syntax tree
ByIdentifier(parsed) ==
    [name \in {Identifier(k) : k \in DOMAIN parsed} |->
        parsed[CHOOSE k \in DOMAIN parsed : Identifier(k) = name]]

\* Options.from_args, parsed being what parse_keyword_specs returned
FromArgs(ns, parsed) ==
    [MakeOptions(ByIdentifier(parsed), ns.docstrings, ns.cmd_docstrings, FALSE)
        EXCEPT !.omit_empty = ns.omit_empty]

\* main: options = Options.from_args(args), and return 1 on ValueError;
\* parsed is what parse_keyword_specs does in Options.__init__
MainOptionsParsed(parsed) ==
    /\ pc = "options"
    /\ IF parsed.exc # ""
       THEN /\ exit_code' = Some(1)
            /\ pc' = "exit"
            /\ UNCHANGED options
       ELSE /\ options' = FromArgs(Val(namespace), parsed.keywords)
            /\ pc' = "main"
            /\ UNCHANGED exit_code
    /\ UNCHANGED <<managerVars, extractorVars, infiles, next_file, stderr, accepted,
                   namespace, written, earlier>>

MainOptions == MainOptionsParsed(ParseKeywordSpecs(FromArgsKeywordSpecs(Val(namespace))))

EntryLess(e1, e2) == OccLess(e1.occurrences[1], e2.occurrences[1])

RECURSIVE InsertEntry(_, _)
InsertEntry(sorted, e) ==
    IF Len(sorted) = 0 THEN <<e>>
    ELSE IF EntryLess(e, sorted[Len(sorted)])
         THEN Append(InsertEntry(SubSeq(sorted, 1, Len(sorted) - 1), e), sorted[Len(sorted)])
         ELSE Append(sorted, e)

\* faulty variant: the entries stay in the order they were added
SortEntriesAsAdded(potfile) == potfile

\* potfile.sort(key=lambda e: e.occurrences[0]) (stable)
RECURSIVE SortEntries(_)
SortEntries(potfile) ==
    IF Len(potfile) = 0 THEN <<>>
    ELSE InsertEntry(SortEntries(SubSeq(potfile, 1, Len(potfile) - 1)), potfile[Len(potfile)])

\* POTFileManager.write: the catalogs its loop does not skip
Saved(catalogs, opts) ==
    {p \in DOMAIN catalogs : ~(Len(catalogs[p]) = 0 /\ opts.omit_empty)}

\* main: potfile_manager.write() and return 0
MainWrite ==
    /\ pc = "main"
    /\ next_file > Len(infiles)
    /\ potfiles' = [p \in DOMAIN potfiles |->
                       IF p \in Saved(potfiles, options) THEN SortEntries(potfiles[p])
                       ELSE potfiles[p]]
    /\ written' = [p \in Saved(potfiles, options) |-> SortEntries(potfiles[p])]
    /\ exit_code' = Some(0)
    /\ pc' = "exit"
    /\ UNCHANGED <<options, current_infile, current_outfile, current_potfile, extractorVars,
                   infiles, next_file, stderr, accepted, namespace, earlier>>

-----------------------------------------------------------------------------
(* Syntax trees, as ast.parse builds them *)

Name(id) == [type |-> "Name", id |-> id]
Attribute(value, attr) == [type |-> "Attribute", value |-> value, attr |-> attr]
StrConstant(s, lineno) ==
    [type |-> "Constant", value |-> [type |-> "str", value |-> s], lineno |-> lineno]
BytesConstant(s, lineno) ==
    [type |-> "Constant", value |-> [type |-> "bytes", value |-> s], lineno |-> lineno]
JoinedStr(values, lineno) == [type |-> "JoinedStr", values |-> values, lineno |-> lineno]
Starred(value) == [type |-> "Starred", value |-> value]
Keyword(arg, value) == [type |-> "keyword", arg |-> arg, value |-> value]
Call(func, args, keywords, lineno) ==
    [type |-> "Call", func |-> func, args |-> args, keywords |-> keywords, lineno |-> lineno]
Expr(value) == [type |-> "Expr", value |-> value]
Pass == [type |-> "Pass"]
Def(type, decorator_list, body, lineno) ==
    [type |-> type, decorator_list |-> decorator_list, body |-> body, lineno |-> lineno]
Module(body) == [type |-> "Module", body |-> body]

\* an input file: its path, its text and the tree ast.parse returns for the text
InFile(path, text, module) == [path |-> path, source |-> text, module |-> module]

SeqsUpTo(S, n) == UNION {[1..k -> S] : k \in 0..n}

\* source lines: code, a tagged comment, an untagged comment, a blank line
CodeLine == <<"x">>
TagLine == <<"#", " ", "T", ":", " ", "a">>
NoteLine == <<"#", " ", "n">>
BlankLine == <<>>

\* the text of a file with the lines given
TextOf(lines) == StrJoin(<<NL>>, lines) \o <<NL>>

-----------------------------------------------------------------------------
(* SpecCalls: one file of two call statements, the first of any shape *)

MaxArgs == 3

\* _("A") on the line given
SimpleCall(msgid, lineno) == Call(Name("_"), <<StrConstant(Str1(msgid), lineno)>>, <<>>, lineno)

\* the func of the first call: a registered name, as a name or an attribute,
\* an unregistered name, a call
CallFuncs ==
    {Name("_"), Name("p_"), Name("t_"), Name("f"), Attribute(Name("o"), "_"),
     Call(Name("f"), <<>>, <<>>, 1)}

\* its positional arguments: a literal, a name, a spread, a translatable call
CallArgs ==
    {StrConstant(Str1("A"), 1), Name("v"), Starred(Name("v")), SimpleCall("A", 1)}

CallKeywords == {<<>>, <<Keyword("k", Name("v"))>>, <<Keyword("k", SimpleCall("A", 1))>>}

\* the file a/x of the call f(args, kws) on line 1 and _("B") on line 2
CallFile(f, args, kws) ==
    InFile(<<Str1("a"), Str1("x")>>, TextOf(<<CodeLine, CodeLine>>),
           Module(<<Expr(Call(f, args, kws, 1)), Expr(SimpleCall("B", 2))>>))

\* main, before its loop over the one input file given
InitExtract(opts, file) ==
    /\ options = opts
    /\ infiles = <<file>>
    /\ potfiles = [p \in {} |-> <<>>]
    /\ current_infile = None
    /\ current_outfile = None
    /\ current_potfile = None
    /\ source = <<>>
    /\ translator_comments = [l \in {} |-> <<>>]
    /\ todo = <<>>
    /\ next_file = 1
    /\ pc = "main"
    /\ stderr = <<>>
    /\ accepted = <<>>
    /\ namespace = None
    /\ exit_code = None
    /\ written = [p \in {} |-> <<>>]
    /\ earlier = <<>>

InitCalls ==
    \E f \in CallFuncs, args \in SeqsUpTo(CallArgs, MaxArgs), kws \in CallKeywords :
        InitExtract(MakeOptions(ExtractKeywords, FALSE, FALSE, FALSE), CallFile(f, args, kws))

NextCalls ==
    \/ MainSetCurrentFile
    \/ ExtractMessagesBegin
    \/ VisitModule
    \/ VisitCall
    \/ VisitOther
    \/ ExtractMessagesEnd

SpecCalls == InitCalls /\ [][NextCalls]_vars

-----------------------------------------------------------------------------
(* SpecComments: one file of code lines, each with or without a comment    *)
(* block before it, and one or two calls on those lines                    *)

MaxCodeLines == 3

TagLineB == <<"#", " ", "T", ":", " ", "b">>

\* what stands before a code line: nothing, a tagged comment, or a tagged
\* comment, a blank line and an untagged comment
BlockShapes == {<<>>, <<TagLineB>>, <<TagLine, BlankLine, NoteLine>>}

\* what stands after the last code line
TrailingShapes == {<<>>, <<TagLine>>}

RECURSIVE BlockedLines(_, _)
BlockedLines(blocks, n) ==
    IF n = 0 THEN <<>> ELSE BlockedLines(blocks, n - 1) \o blocks[n] \o <<CodeLine>>

\* the line number of the n-th code line
CodeLineNo(blocks, n) == Len(BlockedLines(blocks, n))

\* _(msgid), the call on line lc and the literal on line la
CallOn(msgid, lc, la) ==
    Call(Name("_"), <<StrConstant(Str1(msgid), la)>>, <<>>, lc)

\* p_("c", "A"), the call and its two literals on lines lc, l1 and l2
ContextCallOn(lc, l1, l2) ==
    Call(Name("p_"), <<StrConstant(Str1("c"), l1), StrConstant(Str1("A"), l2)>>, <<>>, lc)

\* the statements of a file whose n code lines have the line numbers given: a
\* first call that spreads over code lines in their order, and a second call,
\* or none, on the line where the first one ends or on a later one
CommentBodies(lineno, n) ==
    UNION {
        {<<Expr(first.call)>>}
        \cup {<<Expr(first.call), Expr(CallOn(m, lineno[l], lineno[l]))>> :
                 m \in {"A", "B"}, l \in first.last..n} :
        first \in UNION {{[call |-> CallOn("A", lineno[lc], lineno[la]), last |-> la] :
                             lc \in 1..la} : la \in 1..n}
                  \cup UNION {{[call |-> ContextCallOn(lineno[lc], lineno[l1], lineno[l2]),
                                last |-> l2] :
                                  lc \in 1..l1} : <<l1, l2>> \in {p \in (1..n) \X (1..n) : p[1] <= p[2]}}}

\* the file a/x of the code lines, the blocks before them, what stands after
\* the last of them, and the statements given
CommentFile(blocks, trailing, body) ==
    InFile(<<Str1("a"), Str1("x")>>, TextOf(BlockedLines(blocks, Len(blocks)) \o trailing),
           Module(body))

InitComments ==
    \E blocks \in UNION {[1..n -> BlockShapes] : n \in 1..MaxCodeLines},
       trailing \in TrailingShapes :
        \E body \in CommentBodies([k \in 1..Len(blocks) |-> CodeLineNo(blocks, k)],
                                  Len(blocks)) :
            InitExtract(MakeOptions(ExtractKeywords, FALSE, FALSE, FALSE),
                        CommentFile(blocks, trailing, body))

SpecComments == InitComments /\ [][NextCalls]_vars

-----------------------------------------------------------------------------
(* SpecDocstrings: one file of a module statement and a decorated          *)
(* definition that holds a decorated function                              *)

MaxDecorators == 2

\* the first statement of the module, on line 1: a docstring or a bytes literal
ModuleFirsts == {Expr(StrConstant(Str1("d"), 1)), Expr(BytesConstant(Str1("d"), 1))}

DefTypes == {"ClassDef", "FunctionDef", "AsyncFunctionDef"}

\* decorators, on line 2: calls of markers by name and by attribute, a marker
\* that is not called, a call of something else
Decorators ==
    {Call(Name("command"), <<>>, <<>>, 2),
     Call(Attribute(Name("o"), "group"), <<>>, <<>>, 2),
     Call(Name("cog_i18n"), <<>>, <<>>, 2),
     Name("command"),
     Call(Name("f"), <<>>, <<>>, 2)}

\* the first statement of the definition, on line 4: a docstring, an empty
\* docstring, a bytes literal, an f-string, a statement that is no expression
BodyFirsts ==
    {Expr(StrConstant(Str1("d"), 4)), Expr(StrConstant(<<>>, 4)),
     Expr(BytesConstant(Str1("d"), 4)),
     Expr(JoinedStr(<<StrConstant(Str1("d"), 4)>>, 4)), Pass}

\* @command() def ...: "e", on lines 5 to 7
InnerDef ==
    Def("FunctionDef", <<Call(Name("command"), <<>>, <<>>, 5)>>,
        <<Expr(StrConstant(Str1("e"), 7))>>, 6)

\* the file a/x of the module statement and the definition given
DocstringFile(first, type, decorator_list, body) ==
    InFile(<<Str1("a"), Str1("x")>>, TextOf([i \in 1..7 |-> CodeLine]),
           Module(<<first, Def(type, decorator_list, <<body, InnerDef>>, 3)>>))

InitDocstrings ==
    \E docstrings \in BOOLEAN, cmd_docstrings \in BOOLEAN, first \in ModuleFirsts,
       type \in DefTypes, decorator_list \in SeqsUpTo(Decorators, MaxDecorators),
       body \in BodyFirsts :
        InitExtract(MakeOptions(DefaultKeywords, docstrings, cmd_docstrings, FALSE),
                    DocstringFile(first, type, decorator_list, body))

NextDocstrings ==
    \/ MainSetCurrentFile
    \/ ExtractMessagesBegin
    \/ VisitModule
    \/ VisitClassDef
    \/ VisitFunctionDef
    \/ VisitCall
    \/ VisitOther
    \/ ExtractMessagesEnd

SpecDocstrings == InitDocstrings /\ [][NextDocstrings]_vars

-----------------------------------------------------------------------------
(* SpecKeywords: main up to Options.from_args, for one keyword spec built   *)
(* of tokens or for a list of specs, and no input file                     *)

MaxTokens == 4
MaxSpecs == 3

\* the tokens of an argspec: numbers, context and total numbers, comments,
\* a quote
SpecTokens ==
    {<<"1">>, <<"2">>, <<"3", "c">>, <<"2", "t">>, <<"3", "t">>,
     <<"\"", "a", "\"">>, <<"\"", "b", ",", "2", "\"">>, <<"\"">>}

\* k:token,token,...
SpecOf(tokens) == <<"k", ":">> \o StrJoin(<<",">>, tokens)

\* k, specs whose numbers int() reads: k: 1, k:+1, k:1_0, k:12, k:-1, specs
\* with a number 0: k:0, k:1,0, k:1,0c, k:1,0t, specs with a word: k:x, k:1,x,
\* k:1,xc, specs with one quote: k:a", k:"a, and specs with the context
\* first: k:1c,2, k:1c,1, k:1c,2,3,3t
OddSpecs ==
    {<<"k">>, <<"k", ":", " ", "1">>, <<"k", ":", "+", "1">>, <<"k", ":", "1", "_", "0">>,
     <<"k", ":", "1", "2">>, <<"k", ":", "-", "1">>,
     <<"k", ":", "0">>, <<"k", ":", "1", ",", "0">>, <<"k", ":", "1", ",", "0", "c">>,
     <<"k", ":", "1", ",", "0", "t">>,
     <<"k", ":", "x">>, <<"k", ":", "1", ",", "x">>, <<"k", ":", "1", ",", "x", "c">>,
     <<"k", ":", "a", "\"">>, <<"k", ":", "\"", "a">>,
     <<"k", ":", "1", "c", ",", "2">>, <<"k", ":", "1", "c", ",", "1">>,
     <<"k", ":", "1", "c", ",", "2", ",", "3", ",", "3", "t">>}

\* the specs of the lists: k:1, k:2, k:1,2t, k:2,1,2t, k:1,3t, j:1, k:x
ListSpecs ==
    {<<"k", ":", "1">>, <<"k", ":", "2">>, <<"k", ":", "1", ",", "2", "t">>,
     <<"k", ":", "2", ",", "1", ",", "2", "t">>, <<"k", ":", "1", ",", "3", "t">>,
     <<"j", ":", "1">>, <<"k", ":", "x">>}

\* main after _parse_args has returned ns, the input files being those given
InitMain(ns, files) ==
    /\ namespace = Some(ns)
    /\ exit_code = None
    /\ written = [p \in {} |-> <<>>]
    /\ earlier = <<>>
    /\ options = None
    /\ infiles = files
    /\ potfiles = [p \in {} |-> <<>>]
    /\ current_infile = None
    /\ current_outfile = None
    /\ current_potfile = None
    /\ source = <<>>
    /\ translator_comments = [l \in {} |-> <<>>]
    /\ todo = <<>>
    /\ next_file = 1
    /\ pc = "options"
    /\ stderr = <<>>
    /\ accepted = <<>>

InitKeywords ==
    \/ \E tokens \in SeqsUpTo(SpecTokens, MaxTokens) :
           InitMain(Namespace(<<SpecOf(tokens)>>, FALSE, FALSE, FALSE, <<Str1("l")>>,
                              <<Str1("m")>>),
                    <<>>)
    \/ \E spec \in OddSpecs :
           InitMain(Namespace(<<spec>>, FALSE, FALSE, FALSE, <<Str1("l")>>, <<Str1("m")>>),
                    <<>>)
    \/ \E specs \in SeqsUpTo(ListSpecs, MaxSpecs), include_default_keywords \in BOOLEAN :
           InitMain(Namespace(specs, include_default_keywords, FALSE, FALSE, <<Str1("l")>>,
                              <<Str1("m")>>),
                    <<>>)

NextKeywords == MainOptions \/ MainWrite

SpecKeywords == InitKeywords /\ [][NextKeywords]_vars

-----------------------------------------------------------------------------
(* SpecLines: one file of a few lines of any kind, with a call on each of  *)
(* its code lines                                                           *)

MaxLines == 4

\* `x  # T: a`, ` `, ` #T: b`
TrailingCommentLine == <<"x", " ", "#", " ", "T", ":", " ", "a">>
SpaceLine == <<" ">>
IndentedTagLine == <<" ", "#", "T", ":", " ", "b">>

LineShapes ==
    {CodeLine, TrailingCommentLine, TagLine, IndentedTagLine, NoteLine, BlankLine, SpaceLine}

\* the statements of the lines given: `_("A")` on every line of code
RECURSIVE CallsOnCode(_, _)
CallsOnCode(lines, n) ==
    IF n = 0 THEN <<>>
    ELSE CallsOnCode(lines, n - 1)
         \o (IF lines[n] \in {CodeLine, TrailingCommentLine}
             THEN <<Expr(SimpleCall("A", n))>> ELSE <<>>)

\* the file a/x of the lines given
LinesFile(lines) ==
    InFile(<<Str1("a"), Str1("x")>>, TextOf(lines), Module(CallsOnCode(lines, Len(lines))))

InitLines ==
    \E lines \in UNION {[1..n -> LineShapes] : n \in 1..MaxLines} :
        InitExtract(MakeOptions(ExtractKeywords, FALSE, FALSE, FALSE), LinesFile(lines))

SpecLines == InitLines /\ [][NextCalls]_vars

-----------------------------------------------------------------------------
(* SpecMain: main run on one or more files, one of which may fail to       *)
(* parse, with the output options given or not; then main run once more on *)
(* the same files in another order                                          *)

MaxFiles == 2

\* the comment line `# T: ` followed by the path's letters
TagLineOf(path) == <<"#", " ", "T", ":", " ", path[1][1], path[2][1]>>

\* what a file at the path holds: `_("A")` under a translator comment, a call
\* `n("A", plural)` whose plural is the file's own, `_("B")`, or text that
\* does not parse
MainContents == {"commented", "plural", "plain", "malformed"}

MainFile(path, content) ==
    CASE content = "commented" ->
            InFile(path, TextOf(<<TagLineOf(path), CodeLine>>),
                   Module(<<Expr(SimpleCall("A", 2))>>))
      [] content = "plural" ->
            InFile(path, TextOf(<<CodeLine>>),
                   Module(<<Expr(Call(Name("n"),
                                      <<StrConstant(Str1("A"), 1),
                                        StrConstant(<<"A", path[2][1]>>, 1)>>, <<>>, 1))>>))
      [] content = "plain" ->
            InFile(path, TextOf(<<CodeLine>>), Module(<<Expr(SimpleCall("B", 1))>>))
      [] content = "malformed" ->
            InFile(path, TextOf(<<CodeLine>>), [type |-> "SyntaxError"])

\* the lists of up to MaxFiles files at different paths
MainFileLists ==
    UNION {{[i \in 1..n |-> MainFile(paths[i], contents[i])] :
               paths \in {p \in [1..n -> InFiles] : \A i, j \in 1..n : i # j => p[i] # p[j]},
               contents \in [1..n -> MainContents]} : n \in 1..MaxFiles}

\* --keyword n:1,2 and the default keywords, and the options of the output
InitRun ==
    \E files \in MainFileLists, omit_empty \in BOOLEAN, relative_to_cwd \in BOOLEAN,
       output \in {<<Str1("l"), Str1("m")>>, <<Str1("d"), Str1("f")>>} :
        InitMain(Namespace(<< <<"n", ":", "1", ",", "2">> >>, TRUE, omit_empty,
                           relative_to_cwd, <<output[1]>>, <<output[2]>>),
                 files)

\* the program run again, on the same files in another order
MainRunAgain ==
    /\ pc = "exit"
    /\ exit_code = Some(0)
    /\ Len(earlier) = 0
    /\ \E order \in Permutations(1..Len(infiles)) :
           /\ infiles' = [i \in 1..Len(infiles) |-> infiles[order[i]]]
           /\ infiles' # infiles
    /\ earlier' = Append(earlier, [infiles |-> infiles, written |-> written])
    /\ exit_code' = None
    /\ written' = [p \in {} |-> <<>>]
    /\ options' = None
    /\ potfiles' = [p \in {} |-> <<>>]
    /\ current_infile' = None
    /\ current_outfile' = None
    /\ current_potfile' = None
    /\ source' = <<>>
    /\ translator_comments' = [l \in {} |-> <<>>]
    /\ todo' = <<>>
    /\ next_file' = 1
    /\ pc' = "options"
    /\ stderr' = <<>>
    /\ accepted' = <<>>
    /\ UNCHANGED namespace

NextMain ==
    \/ MainOptions
    \/ MainSetCurrentFile
    \/ ExtractMessagesBegin
    \/ MainSyntaxError
    \/ VisitModule
    \/ VisitCall
    \/ VisitOther
    \/ ExtractMessagesEnd
    \/ MainWrite
    \/ MainRunAgain

SpecMain == InitRun /\ [][NextMain]_vars

-----------------------------------------------------------------------------
(* Spec: the manager driven through its public methods *)

Init ==
    /\ options \in {DefaultOptions(r) : r \in BOOLEAN}
    /\ potfiles = [p \in {} |-> <<>>]
    /\ current_infile = None
    /\ current_outfile = None
    /\ current_potfile = None
    /\ source = <<>>
    /\ translator_comments = [l \in {} |-> <<>>]
    /\ todo = <<>>
    /\ infiles = <<>>
    /\ next_file = 1
    /\ pc = "api"
    /\ stderr = <<>>
    /\ accepted = <<>>
    /\ namespace = None
    /\ exit_code = None
    /\ written = [p \in {} |-> <<>>]
    /\ earlier = <<>>

ApiSetCurrentFile ==
    /\ pc = "api"
    /\ \E path \in InFiles : SetCurrentFile(path)
    /\ UNCHANGED <<mainVars, options, extractorVars, infiles, next_file, pc, stderr, accepted>>

ApiAddEntry ==
    /\ pc = "api"
    /\ Len(accepted) + Len(stderr) < MaxAdds
    /\ \E msgid \in ApiMsgids, msgctxt \in ApiContexts, lineno \in ApiLines :
           AddEntry(msgid, None, msgctxt, None, lineno, FALSE)
    /\ UNCHANGED <<mainVars, options, extractorVars, infiles, next_file, pc>>

Next == ApiSetCurrentFile \/ ApiAddEntry

Spec == Init /\ [][Next]_vars

-----------------------------------------------------------------------------
(* Claims about the manager, checked under Spec *)

Catalogs == DOMAIN potfiles

\* the accepted add_entry calls into catalog k for (msgid, msgctxt), msgctxt as stored
AcceptedFor(k, msgid, msgctxt) ==
    {i \in 1..Len(accepted) : /\ accepted[i].potfile = k
                              /\ accepted[i].msgid = msgid
                              /\ OrNone(accepted[i].msgctxt) = msgctxt}

OccurrencesSorted(occs) ==
    \A i \in 1..Len(occs) - 1 : ~OccLess(occs[i + 1], occs[i])

\* C1: after every set_current_file(path) the current catalog is the one
\* registered under the output path computed for path, also when that output
\* path was seen before and another one was current in between.
C1_CurrentCatalogIsForCurrentFile ==
    ~IsNone(current_infile) =>
        /\ current_outfile = Some(OutFile(options, Val(current_infile)))
        /\ current_potfile = current_outfile

\* C2 as stated: in every catalog there is exactly one entry per distinct
\* (msgid, msgctxt) pair given to an accepted add_entry call, the msgctxt taken
\* as it was given.
C2_OneEntryPerPairAsGiven ==
    \A k \in Catalogs :
        Len(potfiles[k]) =
            Cardinality({<<accepted[i].msgid, accepted[i].msgctxt>> :
                            i \in {j \in 1..Len(accepted) : accepted[j].potfile = k}})

\* C2 amended: in every catalog there is exactly one entry per distinct
\* (msgid, msgctxt) pair of the accepted add_entry calls, an empty msgctxt
\* counting as no msgctxt; the entry's occurrence list is non-empty, holds one
\* (file, line) element per accepted call for the pair and is sorted ascending.
C2_OneEntryPerPair ==
    \A k \in Catalogs :
        /\ \A i \in 1..Len(accepted) :
               accepted[i].potfile = k =>
                   Cardinality({e \in 1..Len(potfiles[k]) :
                                   /\ potfiles[k][e].msgid = accepted[i].msgid
                                   /\ potfiles[k][e].msgctxt = OrNone(accepted[i].msgctxt)}) = 1
        /\ \A e \in 1..Len(potfiles[k]) :
               LET entry == potfiles[k][e]
                   calls == AcceptedFor(k, entry.msgid, entry.msgctxt)
               IN  /\ Len(entry.msgid) > 0
                   /\ Len(entry.occurrences) > 0
                   /\ Len(entry.occurrences) = Cardinality(calls)
                   /\ \A i \in calls :
                          Cardinality({j \in 1..Len(entry.occurrences) :
                                          entry.occurrences[j] = accepted[i].occurrence})
                          = Cardinality({j \in calls :
                                          accepted[j].occurrence = accepted[i].occurrence})
                   /\ OccurrencesSorted(entry.occurrences)

\* an entry holds two occurrences that were added in descending order, one of
\* them with an empty msgctxt and the other with none
C2_Witness ==
    \E i, j \in 1..Len(accepted) :
        /\ i < j
        /\ accepted[i].potfile = accepted[j].potfile
        /\ accepted[i].msgid = accepted[j].msgid
        /\ accepted[i].msgctxt # accepted[j].msgctxt
        /\ OrNone(accepted[i].msgctxt) = OrNone(accepted[j].msgctxt)
        /\ OccLess(accepted[j].occurrence, accepted[i].occurrence)

NoEmptyMsgidStored ==
    \A k \in Catalogs : \A e \in 1..Len(potfiles[k]) : Len(potfiles[k][e].msgid) > 0

EmptyMsgidWarned ==
    /\ Len(stderr') = Len(stderr) + 1
    /\ stderr'[Len(stderr')].kind = "empty_msgid"

\* C6: add_entry with an empty msgid prints the empty-msgid warning and leaves
\* every catalog as it was; no catalog ever holds an entry whose msgid is empty.
C6_EmptyMsgidNeverStored ==
    /\ []NoEmptyMsgidStored
    /\ [][EmptyMsgidWarned => potfiles' = potfiles]_vars

\* the warning was printed while a catalog held an entry
C6_Witness ==
    /\ \E i \in 1..Len(stderr) : stderr[i].kind = "empty_msgid"
    /\ \E k \in Catalogs : Len(potfiles[k]) > 0

-----------------------------------------------------------------------------
(* Claims about the handling of calls, checked under SpecCalls *)

\* the visitor is about to handle a call to a registered keyword
AtRegisteredCall ==
    /\ pc = "visit"
    /\ Len(todo) > 0
    /\ todo[1].type = "Call"
    /\ ~IsNone(CallName(todo[1]))
    /\ Val(CallName(todo[1])) \in DOMAIN options.keywords

HeadSpecs == options.keywords[Val(CallName(todo[1]))]

\* the highest 0-based index a spec refers to
HighestIndex(ki) ==
    LET used == {ki.arg_singular}
                \cup (IF IsNone(ki.arg_plural) THEN {} ELSE {Val(ki.arg_plural)})
                \cup (IF IsNone(ki.arg_context) THEN {} ELSE {Val(ki.arg_context)})
    IN  CHOOSE m \in used : \A i \in used : i <= m

\* the matching rule as the claim words it
StatedMatch(ki, nargs) ==
    IF ~IsNone(ki.total_arg_count) THEN nargs = Val(ki.total_arg_count)
    ELSE nargs >= HighestIndex(ki) + 1

\* the first spec, in list order, that matches as stated; 0 for no match
StatedResolution(keywords, nargs) ==
    LET ok == {i \in 1..Len(keywords) : StatedMatch(keywords[i], nargs)}
    IN  IF ok = {} THEN 0 ELSE CHOOSE i \in ok : \A j \in ok : i <= j

\* C3: for a call with A positional arguments get_keyword_info returns the
\* first spec of the name, in sorted order, that has a discriminator equal to
\* A or has none and A >= its highest referenced index + 1, and signals
\* no-match if there is none.
C3_ResolutionAsStated ==
    (AtRegisteredCall /\ Len(todo[1].keywords) = 0) =>
        GetKeywordInfo(HeadSpecs, Len(todo[1].args))
            = StatedResolution(HeadSpecs, Len(todo[1].args))

\* the spec the stated rule resolves the call to refers to an argument that is
\* no string literal
ReferencedArgNotLiteral(node, ki) ==
    \E n \in {ki.arg_singular}
             \cup (IF IsNone(ki.arg_plural) THEN {} ELSE {Val(ki.arg_plural)})
             \cup (IF IsNone(ki.arg_context) THEN {} ELSE {Val(ki.arg_context)}) :
        IsNone(GetLiteralString(node.args[n + 1]))

\* the step handles the call at the head of todo as a rejected call: nothing is
\* stored, one error is printed, and the visit goes on with the call's children
RejectedAndContinued ==
    /\ potfiles' = potfiles
    /\ accepted' = accepted
    /\ Len(stderr') = Len(stderr) + 1
    /\ stderr'[Len(stderr')].kind = "error"
    /\ stderr'[Len(stderr')].line = todo[1].lineno
    /\ pc' = "visit"
    /\ todo' = Children(todo[1]) \o Tail(todo)

\* C4: a call to a registered keyword whose argument count fits no spec of the
\* name, or whose referenced argument is no string literal, adds no entry, is
\* reported with exactly one error, and the traversal goes on.
C4_BadCallReportedTraversalContinues ==
    [][(/\ AtRegisteredCall
        /\ LET r == StatedResolution(HeadSpecs, Len(todo[1].args))
           IN  \/ r = 0
               \/ r # 0 /\ ReferencedArgNotLiteral(todo[1], HeadSpecs[r]))
       => RejectedAndContinued]_vars

\* C5: a call to a registered keyword with a keyword-style argument or a
\* starred argument, at any position, adds no entry, is reported as an error,
\* and its children are still visited (the report and the children only as far
\* as the visitor is not ended by the IndexError of C3).
C5_KeywordOrSpreadCallRejected ==
    [][(/\ AtRegisteredCall
        /\ \/ Len(todo[1].keywords) > 0
           \/ \E i \in 1..Len(todo[1].args) : todo[1].args[i].type = "Starred")
       => /\ potfiles' = potfiles
          /\ accepted' = accepted
          /\ pc' = "visit" => RejectedAndContinued]_vars

-----------------------------------------------------------------------------
(* Claims about translator comments, checked under SpecComments *)

\* the extraction of the one input file is over
ExtractionDone == pc = "main" /\ next_file > Len(infiles)

TheFile == infiles[1]
TheLines == SplitLines(TheFile.source)
TheCatalog == potfiles[Val(current_potfile)]

IsCodeLine(line) == ~CommentMatch(line).matched
IsTaggedComment(line, tag) ==
    /\ CommentMatch(line).matched
    /\ ~IsNone(CommentMatch(line).comment)
    /\ StartsWith(Strip(Val(CommentMatch(line).comment)), tag)

\* the code lines that a tag-prefixed block stands before: a tagged comment
\* line precedes them with no code line in between
BlockKeys(lines, tag) ==
    {k \in 1..Len(lines) :
        /\ IsCodeLine(lines[k])
        /\ \E i \in 1..k - 1 :
               /\ IsTaggedComment(lines[i], tag)
               /\ \A j \in i + 1..k - 1 : ~IsCodeLine(lines[j])}

\* a tag-prefixed block is the last thing in the file
HasTrailingBlock(lines, tag) ==
    \E i \in 1..Len(lines) :
        /\ IsTaggedComment(lines[i], tag)
        /\ \A j \in i + 1..Len(lines) : ~IsCodeLine(lines[j])

\* the calls below the nodes given, in the order of the source text (the
\* files of SpecComments hold their calls as statements, one after the other)
RECURSIVE CallsOf(_)
CallsOf(nodes) ==
    IF Len(nodes) = 0 THEN <<>>
    ELSE (IF nodes[1].type = "Call" THEN <<nodes[1]>> ELSE <<>>)
         \o CallsOf(Children(nodes[1])) \o CallsOf(Tail(nodes))

TheCalls == CallsOf(<<TheFile.module>>)

IsExtracted(call) == CallOutcome(call, options.keywords) = "add"

CallSpec(call) ==
    options.keywords[Val(CallName(call))][
        GetKeywordInfo(options.keywords[Val(CallName(call))], Len(call.args))]

\* the line of an extracted call and the lines of its resolved literals
CallLines(call) ==
    {call.lineno, call.args[CallSpec(call).arg_singular + 1].lineno}
    \cup (IF IsNone(CallSpec(call).arg_plural) THEN {}
          ELSE {call.args[Val(CallSpec(call).arg_plural) + 1].lineno})
    \cup (IF IsNone(CallSpec(call).arg_context) THEN {}
          ELSE {call.args[Val(CallSpec(call).arg_context) + 1].lineno})

\* the (msgid, msgctxt) an extracted call is stored under
CallMessage(call) ==
    <<call.args[CallSpec(call).arg_singular + 1].value.value,
      IF IsNone(CallSpec(call).arg_context) THEN None
      ELSE OrNone(Some(call.args[Val(CallSpec(call).arg_context) + 1].value.value))>>

\* the first extracted call that has line k among its lines, 0 if there is none
Consumer(k) ==
    LET users == {i \in 1..Len(TheCalls) :
                     IsExtracted(TheCalls[i]) /\ k \in CallLines(TheCalls[i])}
    IN  IF users = {} THEN 0 ELSE CHOOSE i \in users : \A j \in users : i <= j

RECURSIVE Ascending(_)
Ascending(S) ==
    IF S = {} THEN <<>>
    ELSE LET m == CHOOSE x \in S : \A y \in S : x <= y
         IN  <<m>> \o Ascending(S \ {m})

\* the blocks standing before the lines of the calls of one message, joined by
\* newlines in their order of appearance in the file
BlocksInFileOrder(msgid, msgctxt) ==
    LET collected == CollectComments(TheFile.source, options.comment_tag)
        keys == Ascending({k \in BlockKeys(TheLines, options.comment_tag) :
                              /\ Consumer(k) # 0
                              /\ CallMessage(TheCalls[Consumer(k)]) = <<msgid, msgctxt>>})
    IN  StrJoin(<<NL>>, [i \in 1..Len(keys) |-> collected[keys[i]]])

\* C7: a tag-prefixed block standing before the line of an extracted call, or
\* before the line of one of its resolved literals, is attached to the call's
\* message (to the first such call, when calls share a line); the blocks of
\* one message are joined by newlines in their order of appearance in the file.
C7_BlocksAttachedInFileOrder ==
    ExtractionDone =>
        \A e \in 1..Len(TheCatalog) :
            TheCatalog[e].comment
                = BlocksInFileOrder(TheCatalog[e].msgid, TheCatalog[e].msgctxt)

UnusedReports == SelectSeq(stderr, LAMBDA r : r.kind = "unused")

\* the number of comment lines stored in the catalog
RECURSIVE CommentLinesStored(_)
CommentLinesStored(catalog) ==
    IF Len(catalog) = 0 THEN 0
    ELSE Len(SplitLines(catalog[1].comment)) + CommentLinesStored(Tail(catalog))

RECURSIVE CommentLinesOf(_, _)
CommentLinesOf(collected, keys) ==
    IF keys = {} THEN 0
    ELSE LET k == CHOOSE x \in keys : TRUE
         IN  Len(SplitLines(collected[k])) + CommentLinesOf(collected, keys \ {k})

\* C8 as stated: when the extraction of a file ends, every tag-prefixed block
\* that no call consumed has been reported as unused, a block that is the last
\* thing in the file included.
C8_EveryUnconsumedBlockReported ==
    ExtractionDone =>
        Len(UnusedReports)
            = Cardinality({k \in BlockKeys(TheLines, options.comment_tag) : Consumer(k) = 0})
              + (IF HasTrailingBlock(TheLines, options.comment_tag) THEN 1 ELSE 0)

\* C8 amended: when the extraction of a file ends, the blocks reported as
\* unused are, in file order, exactly the tag-prefixed blocks that stand
\* before a code line and that no call consumed; a block with no code line
\* after it is not reported; the catalog holds the lines of the consumed
\* blocks and no others.
C8_UnconsumedBlocksBeforeCodeReported ==
    ExtractionDone =>
        LET unconsumed == {k \in BlockKeys(TheLines, options.comment_tag) : Consumer(k) = 0}
            consumed == BlockKeys(TheLines, options.comment_tag) \ unconsumed
        IN  /\ [i \in 1..Len(UnusedReports) |-> UnusedReports[i].line] = Ascending(unconsumed)
            /\ \A i \in 1..Len(UnusedReports) :
                   UnusedReports[i].file = PathStr(TheFile.path)
            /\ CommentLinesStored(TheCatalog)
                   = CommentLinesOf(CollectComments(TheFile.source, options.comment_tag),
                                    consumed)

\* a file ends with a block, holds an unconsumed block before a code line and
\* a block that a call consumed
C8_Witness ==
    /\ ExtractionDone
    /\ HasTrailingBlock(TheLines, options.comment_tag)
    /\ Len(UnusedReports) > 0
    /\ \E e \in 1..Len(TheCatalog) : Len(TheCatalog[e].comment) > 0

-----------------------------------------------------------------------------
(* Claims about docstrings, checked under SpecDocstrings *)

\* the visitor is about to handle the module, a class or a function
AtDocstringHolder ==
    /\ pc = "visit"
    /\ Len(todo) > 0
    /\ todo[1].type \in {"Module", "ClassDef", "FunctionDef", "AsyncFunctionDef"}

\* the handler of the node goes on to look for a docstring
Candidate(node) ==
    IF node.type = "Module" THEN options.docstrings
    ELSE IsDocstringCandidate(node, options)

\* the first statement of the body is a bare expression whose value is a str
\* literal
FirstIsStrLiteral(node) ==
    /\ Len(node.body) > 0
    /\ node.body[1].type = "Expr"
    /\ node.body[1].value.type = "Constant"
    /\ node.body[1].value.value.type = "str"

\* the step has added the literal as a message: the catalog holds an entry for
\* it that carries the docstring flag and the literal's line of the current file
DocstringEntryProduced(literal) ==
    /\ Len(accepted') = Len(accepted) + 1
    /\ accepted'[Len(accepted')].msgid = literal.value.value
    /\ accepted'[Len(accepted')].is_docstring
    /\ \E e \in 1..Len(potfiles'[Val(current_potfile)]) :
           LET entry == potfiles'[Val(current_potfile)][e]
           IN  /\ entry.msgid = literal.value.value
               /\ entry.flags = <<"docstring">>
               /\ \E o \in 1..Len(entry.occurrences) :
                      entry.occurrences[o] = <<PathStr(Val(current_infile)), literal.lineno>>

NothingProduced == accepted' = accepted /\ potfiles' = potfiles

\* C9 as stated: the handler of a docstring candidate produces an entry iff the
\* first statement of the body is a bare expression whose value is a str
\* literal; the entry carries the docstring flag and the literal's line.
C9_EntryIffStrLiteral ==
    [][AtDocstringHolder /\ Candidate(todo[1]) =>
          IF FirstIsStrLiteral(todo[1])
          THEN DocstringEntryProduced(todo[1].body[1].value)
          ELSE NothingProduced]_vars

\* C9 amended: the handler of a docstring candidate produces an entry iff the
\* first statement of the body is a bare expression whose value is a str
\* literal that is not empty; the entry carries the docstring flag and the
\* literal's line. A bytes literal, an f-string or an empty str literal in
\* that position produces no entry.
C9_EntryIffNonEmptyStrLiteral ==
    [][AtDocstringHolder /\ Candidate(todo[1]) =>
          IF FirstIsStrLiteral(todo[1]) /\ Len(todo[1].body[1].value.value.value) > 0
          THEN DocstringEntryProduced(todo[1].body[1].value)
          ELSE NothingProduced]_vars

TheDef == TheFile.module.body[2]

\* with every docstring wanted, a file whose module starts with a bytes
\* literal and whose definition starts with an empty str literal has been
\* extracted: the inner function's docstring is the only entry
C9_Witness ==
    /\ ExtractionDone
    /\ options.docstrings
    /\ TheFile.module.body[1].value.value.type = "bytes"
    /\ FirstIsStrLiteral(TheDef)
    /\ Len(TheDef.body[1].value.value.value) = 0
    /\ Len(TheCatalog) = 1
    /\ TheCatalog[1].flags = <<"docstring">>
    /\ TheCatalog[1].occurrences = <<<<PathStr(TheFile.path), 7>>>>

\* the final name of the target of a decorator that is a call, "" otherwise
MarkerName(deco) ==
    IF deco.type # "Call" THEN ""
    ELSE IF deco.func.type = "Name" THEN deco.func.id
    ELSE IF deco.func.type = "Attribute" THEN deco.func.attr
    ELSE ""

\* candidacy as the options and the decorators decide it
StatedCandidate(node) ==
    IF options.docstrings THEN TRUE
    ELSE IF ~options.cmd_docstrings THEN FALSE
    ELSE /\ node.type # "Module"
         /\ \E i \in 1..Len(node.decorator_list) :
                MarkerName(node.decorator_list[i])
                    \in (IF node.type = "ClassDef" THEN {"cog_i18n"}
                         ELSE {"command", "group"})

\* C10: with the all-docstrings option the module and every class and function
\* are docstring candidates; with only the command-docstrings option the
\* module is none and a class or function is one iff one of its decorators is
\* a call whose target's final name is a marker of its kind; with neither
\* option nothing is. (A candidate is seen by its non-empty docstring being
\* extracted by its handler.)
C10_CandidacyAsStated ==
    [][AtDocstringHolder /\ FirstIsStrLiteral(todo[1])
          /\ Len(todo[1].body[1].value.value.value) > 0 =>
          IF StatedCandidate(todo[1])
          THEN DocstringEntryProduced(todo[1].body[1].value)
          ELSE NothingProduced]_vars

\* with only the command-docstrings option, a function whose decorators are a
\* marker that is not called and a marker of classes has kept its docstring,
\* and the inner function, decorated by a call of a marker, has given its own
C10_Witness ==
    /\ ExtractionDone
    /\ options.cmd_docstrings /\ ~options.docstrings
    /\ TheDef.type = "FunctionDef"
    /\ TheDef.decorator_list = <<Name("command"), Call(Name("cog_i18n"), <<>>, <<>>, 2)>>
    /\ FirstIsStrLiteral(TheDef)
    /\ Len(TheDef.body[1].value.value.value) > 0
    /\ FirstIsStrLiteral(TheFile.module)
    /\ Len(TheCatalog) = 1
    /\ TheCatalog[1].msgid = Str1("e")

-----------------------------------------------------------------------------
(* Claims about keyword specs, checked under SpecKeywords *)

\* the keyword specs given on the command line
GivenSpecs == Val(namespace).keyword_specs

\* the indices a KeywordInfo refers to
ReferencedIndices(ki) ==
    {ki.arg_singular}
    \cup {ki.arg_plural[i] : i \in 1..Len(ki.arg_plural)}
    \cup {ki.arg_context[i] : i \in 1..Len(ki.arg_context)}

IndicesValid(ki) ==
    /\ \A x \in ReferencedIndices(ki) : x >= 0
    /\ Cardinality(ReferencedIndices(ki)) = 1 + Len(ki.arg_plural) + Len(ki.arg_context)
    /\ ~IsNone(ki.total_arg_count) =>
           /\ Val(ki.total_arg_count) >= 1
           /\ \A x \in ReferencedIndices(ki) : Val(ki.total_arg_count) > x

\* C11: for every keyword spec from_spec raises ValueError or returns a record
\* whose singular, plural and context indices are >= 0 and pairwise distinct
\* and whose total argument count, if present, is >= 1 and greater than every
\* index referred to.
C11_ReturnedIndicesValid ==
    /\ \A i \in 1..Len(GivenSpecs) :
           LET ret == FromSpec(GivenSpecs[i]) IN ret.exc = "" => IndicesValid(Val(ret.info))
    /\ pc = "main" =>
           \A name \in DOMAIN options.keywords :
               \A i \in 1..Len(options.keywords[name]) :
                   IndicesValid(options.keywords[name][i])

\* the options were made of one spec that has a plural, a context and a total
C11_Witness ==
    /\ pc = "main"
    /\ Len(GivenSpecs) = 1
    /\ FromSpec(GivenSpecs[1]).exc = ""
    /\ ~IsNone(Val(FromSpec(GivenSpecs[1]).info).arg_plural)
    /\ ~IsNone(Val(FromSpec(GivenSpecs[1]).info).arg_context)
    /\ ~IsNone(Val(FromSpec(GivenSpecs[1]).info).total_arg_count)

\* the argspec read left to right: its tokens, split at the commas outside
\* double quotes
RECURSIVE TokensFrom(_, _, _, _)
TokensFrom(arg_info, i, quoted, token) ==
    IF i > Len(arg_info) THEN <<token>>
    ELSE IF arg_info[i] = "\""
         THEN TokensFrom(arg_info, i + 1, ~quoted, Append(token, arg_info[i]))
    ELSE IF arg_info[i] = "," /\ ~quoted
         THEN <<token>> \o TokensFrom(arg_info, i + 1, FALSE, <<>>)
    ELSE TokensFrom(arg_info, i + 1, quoted, Append(token, arg_info[i]))

Tokens(keyword_spec) == TokensFrom(Partition(keyword_spec, ":").after, 1, FALSE, <<>>)

Last(token) == IF Len(token) = 0 THEN "" ELSE token[Len(token)]

IsCommentToken(token) == Len(token) >= 2 /\ token[1] = "\"" /\ Last(token) = "\""
IsContextToken(token) == ~IsCommentToken(token) /\ Last(token) = "c"
IsTotalToken(token) == ~IsCommentToken(token) /\ Last(token) = "t"
IsBareToken(token) ==
    ~IsCommentToken(token) /\ ~IsContextToken(token) /\ ~IsTotalToken(token)

\* the tokens of one kind, in the order given
Select(tokens, Kind(_)) == SelectSeq(tokens, Kind)

\* the numbers the tokens carry, less their suffix of the given length
NumbersOf(tokens, suffix) ==
    [i \in 1..Len(tokens) |-> IntOf(SubSeq(tokens[i], 1, Len(tokens[i]) - suffix)).value]
TextsOf(tokens) == [i \in 1..Len(tokens) |-> SubSeq(tokens[i], 2, Len(tokens[i]) - 1)]

BareNumbers(keyword_spec) == NumbersOf(Select(Tokens(keyword_spec), IsBareToken), 0)
ContextNumbers(keyword_spec) == NumbersOf(Select(Tokens(keyword_spec), IsContextToken), 1)
TotalNumbers(keyword_spec) == NumbersOf(Select(Tokens(keyword_spec), IsTotalToken), 1)
CommentTexts(keyword_spec) == TextsOf(Select(Tokens(keyword_spec), IsCommentToken))

HasArgspec(keyword_spec) == Len(Partition(keyword_spec, ":").after) > 0

\* the roles as stated: first bare number singular, second plural, the c
\* number context, each less one; the t number as given; the comments in order
StatedRoles(keyword, bare, context, total, comments) ==
    KI(keyword, bare[1] - 1,
       IF Len(bare) >= 2 THEN Some(bare[2] - 1) ELSE None,
       IF Len(context) >= 1 THEN Some(context[1] - 1) ELSE None,
       IF Len(total) >= 1 THEN Some(total[1]) ELSE None,
       StrJoin(<<NL>>, comments))

StatedOfTokens(keyword, tokens) ==
    StatedRoles(keyword, NumbersOf(Select(tokens, IsBareToken), 0),
                NumbersOf(Select(tokens, IsContextToken), 1),
                NumbersOf(Select(tokens, IsTotalToken), 1),
                TextsOf(Select(tokens, IsCommentToken)))

StatedInfo(keyword_spec) ==
    IF ~HasArgspec(keyword_spec)
    THEN KI(Partition(keyword_spec, ":").before, 0, None, None, None, <<>>)
    ELSE LET tokens == Tokens(keyword_spec)
         IN  StatedOfTokens(Partition(keyword_spec, ":").before, tokens)

\* C12: for every keyword spec from_spec accepts, the record returned has the
\* first bare integer of the argspec (read left to right) less one as singular
\* index, the second less one as plural index, the c integer less one as
\* context index, the t integer as total argument count, and the quoted
\* comments joined in the order given, wherever the context, total and comment
\* tokens stand; a spec without argspec gives singular index 0 and nothing else.
C12_RolesAsStated ==
    /\ \A i \in 1..Len(GivenSpecs) :
           LET ret == FromSpec(GivenSpecs[i])
           IN  ret.exc = "" => ret.info = Some(StatedInfo(GivenSpecs[i]))
    /\ (pc = "main" /\ Len(GivenSpecs) = 1 /\ ~Val(namespace).include_default_keywords) =>
           LET stated == StatedInfo(GivenSpecs[1])
           IN  options.keywords = [name \in {Identifier(stated.keyword)} |-> <<stated>>]

\* the options were made of a spec with two comments, a total and a number
\* behind them
C12_Witness ==
    /\ pc = "main"
    /\ Len(GivenSpecs) = 1
    /\ FromSpec(GivenSpecs[1]).exc = ""
    /\ Len(CommentTexts(GivenSpecs[1])) = 2
    /\ CommentTexts(GivenSpecs[1])[1] # CommentTexts(GivenSpecs[1])[2]
    /\ Len(TotalNumbers(GivenSpecs[1])) = 1
    /\ IsBareToken(Tokens(GivenSpecs[1])[Len(Tokens(GivenSpecs[1]))])

Argspec(keyword_spec) == Partition(keyword_spec, ":").after

QuotesIn(text) == Cardinality({i \in 1..Len(text) : text[i] = "\""})

\* a double quote that closes a token, the quotes behind it being paired, and
\* no quote before it
UnmatchedClosingQuote(arg_info) ==
    \E i \in 1..Len(arg_info) :
        /\ arg_info[i] = "\""
        /\ i = Len(arg_info) \/ arg_info[i + 1] = ","
        /\ QuotesIn(SubSeq(arg_info, i + 1, Len(arg_info))) % 2 = 0
        /\ QuotesIn(SubSeq(arg_info, 1, i - 1)) = 0

\* a token that is no comment and whose number int() does not read
NonIntegerAmong(tokens, suffix) ==
    \E i \in 1..Len(tokens) : ~IntOf(SubSeq(tokens[i], 1, Len(tokens[i]) - suffix)).ok

NonIntegerIn(tokens) ==
    \/ NonIntegerAmong(Select(tokens, IsBareToken), 0)
    \/ NonIntegerAmong(Select(tokens, IsContextToken), 1)
    \/ NonIntegerAmong(Select(tokens, IsTotalToken), 1)

NonIntegerToken(keyword_spec) == NonIntegerIn(Tokens(keyword_spec))
NoSingularToken(keyword_spec) == Len(Select(Tokens(keyword_spec), IsBareToken)) = 0
TooManyBareTokens(keyword_spec) == Len(Select(Tokens(keyword_spec), IsBareToken)) > 2
TooManyContextTokens(keyword_spec) == Len(Select(Tokens(keyword_spec), IsContextToken)) > 1
TooManyTotalTokens(keyword_spec) == Len(Select(Tokens(keyword_spec), IsTotalToken)) > 1

MalformedTokens(tokens) ==
    \/ Len(Select(tokens, IsBareToken)) = 0
    \/ Len(Select(tokens, IsBareToken)) > 2
    \/ Len(Select(tokens, IsContextToken)) > 1
    \/ Len(Select(tokens, IsTotalToken)) > 1
    \/ NonIntegerIn(tokens)

MalformedSpec(keyword_spec) ==
    /\ HasArgspec(keyword_spec)
    /\ \/ UnmatchedClosingQuote(Argspec(keyword_spec))
       \/ LET tokens == Tokens(keyword_spec) IN MalformedTokens(tokens)

ParsedSpecs == FromArgsKeywordSpecs(Val(namespace))
Parsed == ParseKeywordSpecs(ParsedSpecs)

\* discriminated specs first in strictly ascending order of their total
\* argument count, the spec without one last
OrderedByTotal(keywords) ==
    \A i, j \in 1..Len(keywords) :
        i < j =>
            /\ ~IsNone(keywords[i].total_arg_count)
            /\ \/ IsNone(keywords[j].total_arg_count)
               \/ Val(keywords[i].total_arg_count) < Val(keywords[j].total_arg_count)

\* the specs returned for a name are those given for it
SpecsOfName(keyword) ==
    {Val(FromSpec(ParsedSpecs[i]).info) :
        i \in {n \in 1..Len(ParsedSpecs) : Partition(ParsedSpecs[n], ":").before = keyword}}

\* C14: for every list of specs parse_keyword_specs accepts, the specs it
\* returns for a name are the specs given for that name, those with a total
\* argument count first in strictly ascending order of it and the one without
\* last, whatever the order of the list given; the options hold them so.
C14_ReturnedInTotalOrder ==
    /\ LET parsed == Parsed
       IN  parsed.exc = "" =>
               \A keyword \in DOMAIN parsed.keywords :
                   /\ OrderedByTotal(parsed.keywords[keyword])
                   /\ {parsed.keywords[keyword][i] : i \in 1..Len(parsed.keywords[keyword])}
                          = SpecsOfName(keyword)
    /\ pc = "main" =>
           \A name \in DOMAIN options.keywords : OrderedByTotal(options.keywords[name])

\* the options hold three specs of one name, the first one given being the
\* one without a total argument count
C14_Witness ==
    /\ pc = "main"
    /\ \E name \in DOMAIN options.keywords : Len(options.keywords[name]) = 3
    /\ IsNone(Val(FromSpec(GivenSpecs[1]).info).total_arg_count)
    /\ Len(GivenSpecs) = 3

\* two specs of the list have the same name and the same total argument count,
\* or the same name and none
SameNameAndTotalAmong(rets) ==
    \E i, j \in 1..Len(rets) :
        /\ i < j
        /\ rets[i].exc = ""
        /\ rets[j].exc = ""
        /\ Val(rets[i].info).keyword = Val(rets[j].info).keyword
        /\ Val(rets[i].info).total_arg_count = Val(rets[j].info).total_arg_count

SameNameAndTotal(specs) ==
    Len(specs) > 1 /\ SameNameAndTotalAmong([i \in 1..Len(specs) |-> FromSpec(specs[i])])

OnePerTotal(keywords) ==
    \A i, j \in 1..Len(keywords) :
        i # j => keywords[i].total_arg_count # keywords[j].total_arg_count

\* C15: parse_keyword_specs raises ValueError whenever two specs of the list
\* have the same name and the same total argument count, or the same name and
\* no total argument count, whatever their indices; so main returns 1, and the
\* options made of an accepted list hold at most one spec per name and total.
C15_DuplicatesRaise ==
    /\ SameNameAndTotal(ParsedSpecs) =>
           /\ Parsed.exc # ""
           /\ pc # "options" => (pc = "exit" /\ exit_code = Some(1) /\ options = None)
    /\ LET parsed == Parsed
       IN  parsed.exc = "" =>
               \A keyword \in DOMAIN parsed.keywords : OnePerTotal(parsed.keywords[keyword])
    /\ pc = "main" =>
           \A name \in DOMAIN options.keywords : OnePerTotal(options.keywords[name])

\* main has returned 1 for two specs of one name without total argument count
\* whose indices differ
C15_Witness ==
    /\ pc = "exit"
    /\ exit_code = Some(1)
    /\ Len(GivenSpecs) = 2
    /\ FromSpec(GivenSpecs[1]).exc = ""
    /\ FromSpec(GivenSpecs[2]).exc = ""
    /\ IsNone(Val(FromSpec(GivenSpecs[1]).info).total_arg_count)
    /\ IsNone(Val(FromSpec(GivenSpecs[2]).info).total_arg_count)
    /\ Val(FromSpec(GivenSpecs[1]).info).keyword = Val(FromSpec(GivenSpecs[2]).info).keyword
    /\ Val(FromSpec(GivenSpecs[1]).info).arg_singular
           # Val(FromSpec(GivenSpecs[2]).info).arg_singular

-----------------------------------------------------------------------------
(* Claims about main, checked under SpecMain *)

\* main has returned 0 a second time, for the files of the earlier run in
\* another order
SecondRunDone == pc = "exit" /\ exit_code = Some(0) /\ Len(earlier) > 0

\* C16: the catalogs written for a set of input files (their entries with
\* plural text, comments, flags and occurrences, in their order) are the same
\* whatever the order in which the files are processed.
C16_SameForEveryOrder == SecondRunDone => written = earlier[1].written

\* the entries are in the order of their first occurrences (file, then line)
InFirstOccurrenceOrder(entries) ==
    \A i, j \in 1..Len(entries) :
        i < j => ~OccLess(entries[j].occurrences[1], entries[i].occurrences[1])

SameEntries(entries, potfile) ==
    /\ Len(entries) = Len(potfile)
    /\ {entries[i] : i \in 1..Len(entries)} = {potfile[i] : i \in 1..Len(potfile)}

\* C17: write() saves every catalog accumulated, but those without entries
\* when --omit-empty was given, and each saved catalog holds the accumulated
\* entries in the order of their first occurrences (file, then line).
C17_WriteSavesSorted ==
    [][(pc = "main" /\ pc' = "exit") =>
           /\ DOMAIN written' =
                  {p \in DOMAIN potfiles :
                      ~(Len(potfiles[p]) = 0 /\ Val(namespace).omit_empty)}
           /\ \A p \in DOMAIN written' :
                  /\ SameEntries(written'[p], potfiles[p])
                  /\ InFirstOccurrenceOrder(written'[p])]_vars

\* a catalog of two entries was saved, the entry added first being the second
C17_Witness ==
    /\ pc = "exit"
    /\ Len(accepted) = 2
    /\ \E p \in DOMAIN written :
           /\ Len(written[p]) = 2
           /\ written[p][2].msgid = accepted[1].msgid
           /\ written[p][1].msgid = accepted[2].msgid

\* the files of the list that do not parse, and those that do
FailsToParse(file) == file.module.type = "SyntaxError"

OccurrencesOf(catalogs) ==
    UNION {UNION {{catalogs[p][i].occurrences[k][1] :
                      k \in 1..Len(catalogs[p][i].occurrences)} :
                     i \in 1..Len(catalogs[p])} : p \in DOMAIN catalogs}

\* C18: a file that does not parse adds no entry to any catalog and is
\* reported on stderr; the files after it are processed all the same, write()
\* saves the catalogs, and main returns 0.
C18_SyntaxErrorSkipsFile ==
    /\ \A i \in 1..Len(infiles) :
           (FailsToParse(infiles[i]) /\ i < next_file) =>
               /\ \E k \in 1..Len(stderr) :
                      stderr[k] = [kind |-> "syntax", file |-> PathStr(infiles[i].path)]
               /\ PathStr(infiles[i].path) \notin OccurrencesOf(potfiles)
    /\ pc = "exit" =>
           /\ exit_code = Some(0)
           /\ next_file = Len(infiles) + 1
           /\ \A i \in 1..Len(infiles) :
                  ~FailsToParse(infiles[i]) => PathStr(infiles[i].path) \in OccurrencesOf(written)
           /\ DOMAIN written =
                  {p \in DOMAIN potfiles :
                      ~(Len(potfiles[p]) = 0 /\ Val(namespace).omit_empty)}

\* main has returned 0 for a file that does not parse followed by one that
\* does, whose entry was saved
C18_Witness ==
    /\ pc = "exit"
    /\ exit_code = Some(0)
    /\ Len(infiles) = 2
    /\ FailsToParse(infiles[1])
    /\ ~FailsToParse(infiles[2])
    /\ PathStr(infiles[2].path) \in OccurrencesOf(written)
    /\ Len(stderr) = 1

\* the output path the command line asks for
OutputPathAsGiven(ns, path) ==
    PathJoin(PathJoin(IF ns.relative_to_cwd THEN <<>> ELSE PathParent(path), ns.output_dir),
             ns.output_filename)

\* C19: run through main, the output path of every input file is the working
\* directory (with --relative-to-cwd) or the file's directory, joined with the
\* --output-dir and the --output-filename given; with --relative-to-cwd all
\* input files have one catalog.
C19_OutputPathAsGiven ==
    /\ ~IsNone(current_infile) =>
           current_outfile = Some(OutputPathAsGiven(Val(namespace), Val(current_infile)))
    /\ (pc = "exit" /\ Val(namespace).relative_to_cwd) => Cardinality(DOMAIN potfiles) <= 1

-----------------------------------------------------------------------------
(* Claims about collect_comments, checked under SpecLines *)

\* the kinds of a line: blank (nothing but spaces and tabs), comment (a # after
\* nothing but spaces and tabs), code (anything else)
IsBlank(line) == \A i \in 1..Len(line) : line[i] \in {" ", "\t"}
Indent(line) ==
    CHOOSE n \in 0..Len(line) :
        /\ \A i \in 1..n : line[i] \in {" ", "\t"}
        /\ n < Len(line) => line[n + 1] \notin {" ", "\t"}
IsCommentOnly(line) == ~IsBlank(line) /\ line[Indent(line) + 1] = "#"
StrippedComment(line) == Strip(SubSeq(line, Indent(line) + 2, Len(line)))

\* the machine as stated, on its buffer and the blocks it has recorded
MachineStep(m, lineno, line) ==
    IF IsBlank(line) THEN m
    ELSE IF IsCommentOnly(line)
         THEN IF Len(m.buffer) > 0 \/ StartsWith(StrippedComment(line), CommentTag)
              THEN [m EXCEPT !.buffer = Append(@, StrippedComment(line))]
              ELSE m
    ELSE IF Len(m.buffer) > 0
         THEN [buffer |-> <<>>,
               recorded |-> (lineno :> StrJoin(<<NL>>, m.buffer)) @@ m.recorded]
         ELSE m

RECURSIVE Machine(_, _)
Machine(lines, n) ==
    IF n = 0 THEN [buffer |-> <<>>, recorded |-> [l \in {} |-> <<>>]]
    ELSE MachineStep(Machine(lines, n - 1), n, lines[n])

\* every block is keyed by a line of code and begins with a tagged comment
BlocksWellKeyed(lines, blocks) ==
    \A l \in DOMAIN blocks :
        /\ ~IsBlank(lines[l])
        /\ ~IsCommentOnly(lines[l])
        /\ StartsWith(blocks[l], CommentTag)

\* C20: collect_comments leaves the blocks of the stated machine: a blank line
\* changes nothing, a comment line joins the buffer iff the buffer is not empty
\* or its stripped text starts with the tag, any other line records the buffer
\* joined with newlines under its own number and empties it when the buffer is
\* not empty; so no block begins with an untagged comment and every block is
\* keyed by the first line of code after it.
C20_CollectsAsStated ==
    [][(pc = "extract" /\ pc' = "visit") =>
           /\ translator_comments' =
                  Machine(SplitLines(infiles[next_file].source),
                          Len(SplitLines(infiles[next_file].source))).recorded
           /\ BlocksWellKeyed(SplitLines(infiles[next_file].source),
                              translator_comments')]_vars

\* the comments of a file are collected whose lines are an untagged comment, a
\* tagged one, a blank line, and a line of code: one block, of the tagged
\* comment alone, under line 4
C20_Witness ==
    /\ pc = "visit"
    /\ SplitLines(source) = <<NoteLine, TagLine, BlankLine, CodeLine>>
    /\ todo = <<infiles[1].module>>
    /\ DOMAIN translator_comments = {4}
    /\ translator_comments[4] = <<"T", ":", " ", "a">>

-----------------------------------------------------------------------------
(* Claims about the consumption of translator comments, checked under      *)
(* SpecComments                                                             *)

\* the positions in TheCalls of the extracted calls, in traversal order; the
\* n-th of them made the n-th accepted add_entry call
ExtractedCalls == Ascending({i \in 1..Len(TheCalls) : IsExtracted(TheCalls[i])})

\* the blocks the call at a position of TheCalls is the first to have on one
\* of its lines
BlocksOfCall(i) == {k \in BlockKeys(TheLines, options.comment_tag) : Consumer(k) = i}

\* C21: every recorded block is consumed at most once: it is attached to the
\* first extracted call, in traversal order, that has the block's line as its
\* own line or as the line of a resolved literal, and to no other call (a
\* later call on the same line gets nothing), and a consumed block is not
\* reported as unused.
C21_BlockConsumedAtMostOnce ==
    ExtractionDone =>
        /\ Len(accepted) = Len(ExtractedCalls)
        /\ \A n \in 1..Len(accepted) :
               Len(SplitLines(Val(accepted[n].comment)))
                   = CommentLinesOf(CollectComments(TheFile.source, options.comment_tag),
                                    BlocksOfCall(ExtractedCalls[n]))
        /\ \A k \in BlockKeys(TheLines, options.comment_tag) :
               Consumer(k) # 0 =>
                   \A i \in 1..Len(UnusedReports) : UnusedReports[i].line # k

\* two calls stand on one line that has a block before it: the first got the
\* block, the second got nothing
C21_Witness ==
    /\ ExtractionDone
    /\ Len(accepted) = 2
    /\ accepted[1].occurrence = accepted[2].occurrence
    /\ Len(Val(accepted[1].comment)) > 0
    /\ Len(Val(accepted[2].comment)) = 0
    /\ accepted[1].occurrence[2] \in BlockKeys(TheLines, options.comment_tag)

-----------------------------------------------------------------------------
(* Claims about the traversal, checked under SpecCalls *)

\* the traversal of the one input file has come to its end: extract_messages
\* returned, or an exception left the visitor
TraversalOver == ExtractionDone \/ pc = "IndexError"

\* the calls of the file that visit_Call handles with the outcome given
CallsWithOutcome(outcomes) ==
    SelectSeq(TheCalls, LAMBDA call : CallOutcome(call, options.keywords) \in outcomes)

\* the msgids of the calls given, which are extracted calls
MsgidsOf(calls) == [i \in 1..Len(calls) |-> CallMessage(calls[i])[1]]

\* C22: every call expression of the file is examined exactly once, wherever
\* it stands: when the traversal is over the accepted add_entry calls are, in
\* traversal order, those of the extractable calls of the whole tree (the ones
\* nested in the arguments of unregistered, rejected and extracted calls
\* included), one for each, and there is one error report for each call that
\* is rejected.
C22_EveryCallExaminedOnce ==
    TraversalOver =>
        /\ MsgidsOf(CallsWithOutcome({"add"}))
               = [i \in 1..Len(SelectSeq(accepted, LAMBDA a : ~a.is_docstring)) |->
                     SelectSeq(accepted, LAMBDA a : ~a.is_docstring)[i].msgid]
        /\ Len(SelectSeq(stderr, LAMBDA e : e.kind = "error"))
               = Len(CallsWithOutcome({"kwargs", "nomatch", "ValueError"}))

\* the same, for the traversals no exception ends
C22_ExaminedOnceUnlessRaised ==
    ExtractionDone => C22_EveryCallExaminedOnce

-----------------------------------------------------------------------------
(* SpecEntries: a manager with one current file, and add_entry calls for    *)
(* one msgid with and without plural, context and comment                   *)

MaxCalls == 3

\* the arguments of an add_entry call
EntryCall(msgid, msgid_plural, msgctxt, comment, lineno) ==
    [msgid |-> msgid, msgid_plural |-> msgid_plural, msgctxt |-> msgctxt,
     comment |-> comment, lineno |-> lineno]

\* calls that differ in plural and context, calls that differ in comment and
\* line, a call with plural and comment, a call with an empty msgid
EntryCalls ==
    {EntryCall(Str1("A"), p, c, None, 1) :
        p \in {None, Some(<<>>), Some(Str1("P")), Some(Str1("Q"))},
        c \in {None, Some(Str1("c"))}}
    \cup {EntryCall(Str1("A"), None, None, n, l) :
        n \in {Some(<<>>), Some(Str1("n")), Some(Str1("o"))}, l \in ApiLines}
    \cup {EntryCall(Str1("A"), Some(Str1("P")), None, Some(Str1("n")), 2),
          EntryCall(<<>>, Some(Str1("P")), None, Some(Str1("n")), 1)}

\* the manager, constructed
InitEntries ==
    /\ options = DefaultOptions(FALSE)
    /\ potfiles = [p \in {} |-> <<>>]
    /\ current_infile = None
    /\ current_outfile = None
    /\ current_potfile = None
    /\ source = <<>>
    /\ translator_comments = [l \in {} |-> <<>>]
    /\ todo = <<>>
    /\ infiles = <<>>
    /\ next_file = 1
    /\ pc = "api"
    /\ stderr = <<>>
    /\ accepted = <<>>
    /\ namespace = None
    /\ exit_code = None
    /\ written = [p \in {} |-> <<>>]
    /\ earlier = <<>>

\* set_current_file("a/x"), once
EntriesSetCurrentFile ==
    /\ pc = "api"
    /\ IsNone(current_infile)
    /\ SetCurrentFile(<<Str1("a"), Str1("x")>>)
    /\ UNCHANGED <<mainVars, options, extractorVars, infiles, next_file, pc, stderr, accepted>>

\* add_entry(...); next_file counts the calls made
EntriesAddEntry ==
    /\ pc = "api"
    /\ next_file <= MaxCalls
    /\ \E call \in EntryCalls :
           AddEntry(call.msgid, call.msgid_plural, call.msgctxt, call.comment,
                    call.lineno, FALSE)
    /\ next_file' = next_file + 1
    /\ UNCHANGED <<mainVars, options, extractorVars, infiles, pc>>

NextEntries == EntriesSetCurrentFile \/ EntriesAddEntry

SpecEntries == InitEntries /\ [][NextEntries]_vars

-----------------------------------------------------------------------------
(* Claims about add_entry, checked under SpecEntries *)

\* the accepted add_entry calls for the message given: the key of an entry is
\* its msgid and its context, an empty context being no context
CallsFor(msgid, msgctxt) ==
    SelectSeq(accepted, LAMBDA a : a.msgid = msgid /\ OrNone(a.msgctxt) = msgctxt)

\* the plural of the earliest of the calls that gave one, empty if none did
EarliestPlural(calls) ==
    LET with == {i \in 1..Len(calls) : Len(OrEmpty(calls[i].msgid_plural)) > 0}
    IN  IF with = {} THEN <<>>
        ELSE OrEmpty(calls[CHOOSE i \in with : \A j \in with : i <= j].msgid_plural)

\* the entries of the one catalog carry the earliest plural of their calls
PluralIsEarliest ==
    \A p \in DOMAIN potfiles : \A i \in 1..Len(potfiles[p]) :
        potfiles[p][i].msgid_plural
            = EarliestPlural(CallsFor(potfiles[p][i].msgid, potfiles[p][i].msgctxt))

\* an accepted add_entry call for a message that has an entry: the warning is
\* printed exactly when one of the two has a plural and the other has not, and
\* an entry with a plural keeps it
MergeStepAsStated ==
    (Len(accepted') = Len(accepted) + 1) =>
        LET call == accepted'[Len(accepted')]
            potfile == potfiles[call.potfile]
            entry == Find(potfile, call.msgid, OrNone(call.msgctxt))
            warned == /\ Len(stderr') = Len(stderr) + 1
                      /\ stderr'[Len(stderr')].kind = "plural_mismatch"
        IN  IF entry = 0 THEN stderr' = stderr
            ELSE /\ warned <=> ((Len(potfile[entry].msgid_plural) > 0)
                                    # (Len(OrEmpty(call.msgid_plural)) > 0))
                 /\ ~warned => stderr' = stderr
                 /\ Len(potfile[entry].msgid_plural) > 0 =>
                        potfiles'[call.potfile][entry].msgid_plural
                            = potfile[entry].msgid_plural

\* C23: after any sequence of add_entry calls for one (msgid, msgctxt) in one
\* catalog the entry's plural is the plural of the earliest accepted call that
\* gave a non-empty one, and empty if none did; the warning about a use with
\* and without plural form is printed on exactly the calls where exactly one
\* of the existing entry and the new contribution has a plural, and such a
\* call never removes the entry's plural.
C23_PluralOfEarliestCall == []PluralIsEarliest /\ [][MergeStepAsStated]_vars

\* three calls for one message, without plural, with one and with another one:
\* the entry has the plural of the second call, and the second call is the
\* one that was warned about
C23_Witness ==
    /\ Len(accepted) = 3
    /\ \A i \in 1..3 : accepted[i].msgid = Str1("A") /\ IsNone(accepted[i].msgctxt)
    /\ IsNone(accepted[1].msgid_plural)
    /\ accepted[2].msgid_plural = Some(Str1("P"))
    /\ accepted[3].msgid_plural = Some(Str1("Q"))
    /\ Len(stderr) = 1
    /\ potfiles[Val(current_potfile)][1].msgid_plural = Str1("P")

\* the text ends with the comment given, as its whole or as its last lines
IsTailOf(comment, text) ==
    \/ text = comment
    \/ /\ Len(text) > Len(comment)
       /\ SubSeq(text, Len(text) - Len(comment), Len(text)) = <<NL>> \o comment

\* the comment of an entry after a call that merges the comment given into
\* it, as stated: adopted, appended after a newline, or left alone when it is
\* already at the tail
StatedComment(old, comment) ==
    IF Len(old) = 0 THEN comment
    ELSE IF Len(comment) = 0 \/ IsTailOf(comment, old) THEN old
    ELSE old \o <<NL>> \o comment

\* the same without the last case: what is not empty is appended
AppendedComment(old, comment) ==
    IF Len(old) = 0 THEN comment
    ELSE IF Len(comment) = 0 THEN old
    ELSE old \o <<NL>> \o comment

\* an accepted add_entry call for a message that has an entry leaves the
\* entry with the comment that the rule given makes of the old and the new one
CommentMergedBy(Rule(_, _)) ==
    (Len(accepted') = Len(accepted) + 1) =>
        LET call == accepted'[Len(accepted')]
            entry == Find(potfiles[call.potfile], call.msgid, OrNone(call.msgctxt))
        IN  entry # 0 =>
                potfiles'[call.potfile][entry].comment
                    = Rule(potfiles[call.potfile][entry].comment, OrEmpty(call.comment))

\* C24: the comment merge of add_entry avoids duplicates: an entry without a
\* comment adopts the new one, a new non-empty comment is appended after a
\* newline, and a comment equal to the one at the tail of the entry's comment
\* leaves the entry's comment as it is.
C24_CommentMergeAvoidsDuplicates == [][CommentMergedBy(StatedComment)]_vars

\* what add_entry does: it adopts, and it appends whatever is not empty
C24_CommentMergeAppends == [][CommentMergedBy(AppendedComment)]_vars

-----------------------------------------------------------------------------
(* SpecFiles: main over a list of input files from two directories, each    *)
(* file holding one call                                                    *)

MaxInputs == 3

\* the file of the path given: _("A") on line 1
PlainFile(path) ==
    InFile(path, TextOf(<<CodeLine>>), Module(<<Expr(SimpleCall("A", 1))>>))

\* main, before its loop over the input files, which are any of a/x, a/y and
\* b/x in any order (a file may be given twice)
InitFiles ==
    \E relative_to_cwd \in BOOLEAN,
       paths \in UNION {[1..n -> InFiles] : n \in 1..MaxInputs} :
        /\ options = DefaultOptions(relative_to_cwd)
        /\ infiles = [i \in 1..Len(paths) |-> PlainFile(paths[i])]
        /\ potfiles = [p \in {} |-> <<>>]
        /\ current_infile = None
        /\ current_outfile = None
        /\ current_potfile = None
        /\ source = <<>>
        /\ translator_comments = [l \in {} |-> <<>>]
        /\ todo = <<>>
        /\ next_file = 1
        /\ pc = "main"
        /\ stderr = <<>>
        /\ accepted = <<>>
        /\ namespace = None
        /\ exit_code = None
        /\ written = [p \in {} |-> <<>>]
        /\ earlier = <<>>

SpecFiles == InitFiles /\ [][NextCalls]_vars

-----------------------------------------------------------------------------
(* Claims about catalogs and input files, checked under SpecFiles *)

\* C25: over any sequence of input files every occurrence stored in the
\* catalog registered under an output path belongs to an input file whose
\* computed output path is that path: no message of a file is stored in the
\* catalog of another output path.
C25_OccurrencesInOwnCatalog ==
    \A p \in DOMAIN potfiles : \A i \in 1..Len(potfiles[p]) :
        \A j \in 1..Len(potfiles[p][i].occurrences) :
            \E f \in 1..Len(infiles) :
                /\ PathStr(infiles[f].path) = potfiles[p][i].occurrences[j][1]
                /\ OutFile(options, infiles[f].path) = p

\* the same, as long as no file was preceded by a file of another output path
\* that came after a file of its own
C25_OwnCatalogWhileDirectoriesInTurn ==
    (\A f \in 1..Len(infiles) : \A g \in 1..f - 1 : \A h \in 1..g - 1 :
         OutFile(options, infiles[f].path) = OutFile(options, infiles[h].path)
             => OutFile(options, infiles[g].path) = OutFile(options, infiles[f].path))
        => C25_OccurrencesInOwnCatalog

-----------------------------------------------------------------------------
(* SpecBlocks: one file of two code lines, each with or without a comment   *)
(* block before it, and statements on those lines: calls that are           *)
(* extracted, discarded, rejected or not looked at, and bare strings        *)

MaxStatements == 2

StatementKinds ==
    {"extracted", "empty", "kwargs", "nomatch", "nonliteral", "unregistered", "string"}

\* a statement of the kind given on the line given: _("A"), _(""),
\* _("A", k=v), _(), _(v), f("A") or the bare string "d"
Statement(kind, lineno) ==
    CASE kind = "extracted" -> Expr(SimpleCall("A", lineno))
      [] kind = "empty" ->
            Expr(Call(Name("_"), <<StrConstant(<<>>, lineno)>>, <<>>, lineno))
      [] kind = "kwargs" ->
            Expr(Call(Name("_"), <<StrConstant(Str1("A"), lineno)>>,
                      <<Keyword("k", Name("v"))>>, lineno))
      [] kind = "nomatch" -> Expr(Call(Name("_"), <<>>, <<>>, lineno))
      [] kind = "nonliteral" -> Expr(Call(Name("_"), <<Name("v")>>, <<>>, lineno))
      [] kind = "unregistered" ->
            Expr(Call(Name("f"), <<StrConstant(Str1("A"), lineno)>>, <<>>, lineno))
      [] kind = "string" -> Expr(StrConstant(Str1("d"), lineno))

\* what stands before the first and before the second code line: nothing or
\* a block, of one line before the first and of two before the second
LineBlocks == {<<>>, <<TagLineB>>} \X {<<>>, <<TagLine, NoteLine>>}

\* the file a/x of the two code lines with the blocks given before them and of
\* statements of the kinds given, which stand on the code lines given
BlockFile(blocks, kinds, on) ==
    InFile(<<Str1("a"), Str1("x")>>, TextOf(BlockedLines(blocks, 2)),
           Module([i \in 1..Len(kinds) |-> Statement(kinds[i], CodeLineNo(blocks, on[i]))]))

\* main, before its loop over the one input file; docstrings are asked for or
\* not when the file begins with a string
InitBlocks ==
    \E blocks \in LineBlocks, n \in 1..MaxStatements :
        \E kinds \in [1..n -> StatementKinds],
           on \in {f \in [1..n -> 1..2] : \A i \in 1..n - 1 : f[i] <= f[i + 1]} :
            \E docstrings \in IF kinds[1] = "string" THEN BOOLEAN ELSE {FALSE} :
                InitExtract(MakeOptions(ExtractKeywords, docstrings, FALSE, FALSE),
                            BlockFile(blocks, kinds, on))

SpecBlocks == InitBlocks /\ [][NextCalls]_vars

-----------------------------------------------------------------------------
(* Claims about the fate of translator comments, checked under SpecBlocks *)

\* the blocks the collector recorded for the file: line number -> text
Recorded == CollectComments(TheFile.source, options.comment_tag)

\* the lines of the block stand in the text, one after the other
ContainsBlock(text, block) ==
    \E i \in 0..Len(SplitLines(text)) - Len(SplitLines(block)) :
        SubSeq(SplitLines(text), i + 1, i + Len(SplitLines(block))) = SplitLines(block)

\* the entries of the catalog that have the block of line k in their comment
\* (the two blocks of a file of SpecBlocks differ in their text)
EntriesWithBlock(k) ==
    {i \in 1..Len(TheCatalog) : ContainsBlock(TheCatalog[i].comment, Recorded[k])}

\* the block of line k was reported as unused
ReportedUnused(k) == \E i \in 1..Len(UnusedReports) : UnusedReports[i].line = k

\* every recorded block is in the comment of one entry and not reported, or
\* reported and in no entry
EveryBlockAccountedFor ==
    \A k \in DOMAIN Recorded :
        \/ Cardinality(EntriesWithBlock(k)) = 1 /\ ~ReportedUnused(k)
        \/ EntriesWithBlock(k) = {} /\ ReportedUnused(k)

\* C26: at the end of a file's extraction every translator comment block the
\* collector recorded is in exactly one of two places, the comment of exactly
\* one catalog entry or the list of blocks reported as unused; no recorded
\* block disappears silently.
C26_NoBlockDisappears == ExtractionDone => EveryBlockAccountedFor

\* the same for the files in which no call with an empty msgid has a block on
\* its line
C26_NoBlockDisappearsUnlessDiscarded ==
    (/\ ExtractionDone
     /\ \A i \in 1..Len(TheCalls) :
            (IsExtracted(TheCalls[i]) /\ Len(CallMessage(TheCalls[i])[1]) = 0)
                => TheCalls[i].lineno \notin DOMAIN Recorded)
        => EveryBlockAccountedFor

\* a call to a registered keyword whose extraction is rejected: it has keyword
\* arguments, or no spec of the name matches it, or an argument the matching
\* spec refers to is no string literal
IsRejected(node) ==
    /\ ~IsNone(CallName(node))
    /\ Val(CallName(node)) \in DOMAIN options.keywords
    /\ LET specs == options.keywords[Val(CallName(node))]
           found == GetKeywordInfo(specs, Len(node.args))
       IN  \/ Len(node.keywords) > 0
           \/ found = 0
           \/ found # 0 /\ ResolveArgs(node, specs[found]).exc = "ValueError"

\* the visit of a rejected call changes neither the catalogs nor the pending
\* translator comments
RejectedCallChangesNothing ==
    (pc = "visit" /\ Len(todo) > 0 /\ todo[1].type = "Call" /\ IsRejected(todo[1])) =>
        /\ potfiles' = potfiles
        /\ translator_comments' = translator_comments

\* at the end of the extraction a block that no extracted call had on its
\* lines was reported as unused, rejected calls on its line or not, and a
\* block that an extracted call with a msgid had on its lines is in an entry
PendingBlocksStillUsable ==
    ExtractionDone =>
        \A k \in DOMAIN Recorded :
            IF Consumer(k) = 0 THEN ReportedUnused(k) /\ EntriesWithBlock(k) = {}
            ELSE /\ ~ReportedUnused(k)
                 /\ Len(CallMessage(TheCalls[Consumer(k)])[1]) > 0
                        => EntriesWithBlock(k) # {}

\* C27: a call to a registered keyword whose extraction is rejected (keyword
\* arguments, no matching spec, or a referenced argument that is no string
\* literal) leaves the current catalog and the pending translator comments
\* unchanged: the comments of its lines stay pending, and are consumed by a
\* later call on the same line or reported as unused.
C27_RejectedCallLeavesCommentsPending ==
    [][RejectedCallChangesNothing]_vars /\ []PendingBlocksStillUsable

\* a rejected call and an extracted call stand, in this order, on a line with
\* a block before it, and the block is in the entry of the extracted call
C27_Witness ==
    /\ ExtractionDone
    /\ Len(TheCalls) = 2
    /\ IsRejected(TheCalls[1])
    /\ IsExtracted(TheCalls[2])
    /\ TheCalls[1].lineno = TheCalls[2].lineno
    /\ TheCalls[1].lineno \in DOMAIN Recorded
    /\ EntriesWithBlock(TheCalls[1].lineno) # {}
    /\ Len(UnusedReports) = 0

====
